---- MODULE Spec2Model ----
(***************************************************************************)
(* Ledger and settlement engine of the expense backend:                    *)
(*   calculateSplits / createExpense / updateExpense / deleteExpense       *)
(*   (expense service), calculateBalances / minimizeCashFlow (balance      *)
(*   service), the group and settlement services, and the balance and      *)
(*   suggestion requests.                                                  *)
(*                                                                         *)
(* Money.  The code computes on JavaScript numbers (IEEE 754 doubles) and  *)
(* formats them with toFixed(2).  An amount that a request carries, that   *)
(* toFixed(2) produced or that a row stores is a decimal of at most three  *)
(* places; the model holds it as its whole number of units of 0.001, which *)
(* stands for the double nearest to it.  A number the code has computed    *)
(* (a sum, a difference, a product, a quotient) is held with the distance  *)
(* of the double from that decimal, so that rounding, comparison and the   *)
(* 0.01 thresholds act on the double the program has in hand.              *)
(*                                                                         *)
(* Requests.  A handler runs from one await to the next without            *)
(* interruption, and other requests run in between its awaits.  Every      *)
(* handler is one action per awaited query, over the calls in flight.      *)
(***************************************************************************)
EXTENDS Integers, Sequences, FiniteSets, TLC

\* ------------------------------------------------------------------ bounds
\* largest balance, in cents, of a balance map handed to minimizeCashFlow
MaxBal == 2
\* loop iterations of minimizeCashFlow the model follows (the loop has no cap)
MaxIter == 8
\* participants of one splitBetween list
MaxParts == 2
\* participants of an EQUAL split handed to calculateSplits on its own
MaxN == 5
\* largest amount, in cents, of a call studied on its own
MaxCents == 12

\* expenses of a list handed to calculateBalances on its own
MaxExpenses == 2
\* largest balance, in cents, of a Map handed to both pairing algorithms
MaxPair == 5
\* largest balance, in cents, of a Map handed to the pairing loop on its own
MaxOwed == 4
\* expenses the requests followed one after the other may leave in store
MaxStored == 2
\* group ids the store may hold rows under
MaxGroups == 2
\* settlements the requests followed may leave in store
MaxSettled == 1

\* 0.01 of the currency, in units of 0.001
Cent == 10
\* one percent: a percentage is held like an amount, in units of 0.001
Percent == 1000

Users == {"u1", "u2", "u3"}
\* the users of the balance maps handed to minimizeCashFlow, in the map's order
MapUsers == <<"a", "b", "c", "d", "e", "f">>
\* the callers of the expense calls: u1 belongs to the group, u3 does not
Callers == {"u1", "u3"}
NoPct == -1

\* ----------------------------------------------------------------- helpers
Abs(x) == IF x < 0 THEN -x ELSE x

RECURSIVE SumSeq(_)
SumSeq(s) == IF s = <<>> THEN 0 ELSE Head(s) + SumSeq(Tail(s))

Amounts(s) == [i \in 1..Len(s) |-> s[i].amount]

\* Array.prototype.splice(idx, 1): beyond the end it removes nothing
Splice(s, idx) ==
  IF idx < 1 \/ idx > Len(s) THEN s
  ELSE SubSeq(s, 1, idx - 1) \o SubSeq(s, idx + 1, Len(s))

\* ------------------------------------------------------ JavaScript numbers
\* A number x of the program lying within reach of a whole number u of units:
\* x = u / 1000 + r / (125 * 2^64), that is  x * 125 * 2^64 = u * 2^61 + r.
\* Every double between 2^-10 and 2^11 is an integer multiple of 2^-63, so r
\* is an integer; u is the whole number of units nearest to x.
Num(u, r) == [u |-> u, r |-> r]

Zero == Num(0, 0)

\* 2^n, and 2^n modulo 125, by squaring
RECURSIVE Pow2(_)
Pow2(n) ==
  IF n = 0 THEN 1
  ELSE IF n % 2 = 1 THEN 2 * Pow2(n - 1)
  ELSE LET h == Pow2(n \div 2) IN h * h

RECURSIVE Pow2Mod125(_)
Pow2Mod125(n) ==
  IF n = 0 THEN 1
  ELSE IF n % 2 = 1 THEN (2 * Pow2Mod125(n - 1)) % 125
  ELSE LET h == Pow2Mod125(n \div 2) IN (h * h) % 125

\* the binary exponent e of a units: 2^e <= a / 1000 < 2^(e + 1), for a >= 1
RECURSIVE Exponent(_)
Exponent(a) ==
  IF a >= 2000 THEN Exponent(a \div 2) + 1
  ELSE IF a < 1000 THEN Exponent(2 * a) - 1
  ELSE 0

\* a units is a power of two: 0.125, 0.25, 0.5, 1, 2, ...
RECURSIVE IsPowerOfTwo(_)
IsPowerOfTwo(a) ==
  IF a = 125 THEN TRUE
  ELSE IF a < 125 \/ a % 2 = 1 THEN FALSE
  ELSE IsPowerOfTwo(a \div 2)

\* The double nearest to u / 1000 + x / (125 * 2^64), a tie going to the even
\* significand: the rounding every arithmetic operation ends with.  The
\* doubles of exponent e are 2^(e - 52) apart, which is P = 125 * g of the
\* parts r is counted in, g = 2^(e + 12); m and m2 place the decimal u / 1000
\* between two of them, lo and lo + P are the two doubles around the number.
\* x is given as its whole part f and whether anything is left above it
\* (more): the doubles and the middle between two of them are whole numbers
\* of parts, so no more of x is needed to tell the side the number lies on.

\* of the doubles lo and hi the nearer one; twice tells the side of their middle
\* the number lies on
Nearer(lo, hi, twice, odd) ==
  IF twice < 0 THEN lo
  ELSE IF twice > 0 THEN hi
  ELSE IF odd THEN hi ELSE lo

RoundFrom(f, more, lo, P, base) ==
  Nearer(lo, lo + P,
         IF 2 * f # 2 * lo + P THEN 2 * f - (2 * lo + P) ELSE IF more THEN 1 ELSE 0,
         ((base + lo) \div P) % 2 = 1)

RoundOnGrid(f, more, g, m, m2) ==
  RoundFrom(f, more, 125 * g * ((f + g * m) \div (125 * g)) - g * m, 125 * g, 2 * g * m2)

RoundAt(u, f, more, e) ==
  RoundOnGrid(f, more, Pow2(e + 12),
              ((u % 125) * Pow2Mod125(49 - e)) % 125,
              ((u % 125) * Pow2Mod125(48 - e)) % 125)

\* the exponent of the doubles around the number: one less than that of
\* u / 1000 when that is a power of two and the number lies below it
ExponentAround(u, f, more) ==
  Exponent(Abs(u))
    - (IF IsPowerOfTwo(Abs(u)) /\ ((u > 0 /\ f < 0) \/ (u < 0 /\ (f > 0 \/ (f = 0 /\ more))))
       THEN 1 ELSE 0)

RoundWhole(u, f, more) ==
  IF u = 0 THEN Num(0, f)
  ELSE Num(u, RoundAt(u, f, more, ExponentAround(u, f, more)))

\* the double nearest to u / 1000 + (tn / td) / (125 * 2^64), for td >= 1
Round(u, tn, td) == RoundWhole(u, tn \div td, tn % td # 0)

\* the double a decimal literal of u units is read as (JSON.parse, parseFloat)
Double(u) == Round(u, 0, 1)

Neg(x) == Num(-x.u, -x.r)

\* x + y and x - y
Add(x, y) == Round(x.u + y.u, x.r + y.r, 1)

Sub(x, y) == Add(x, Neg(y))

\* x * n for an integer n
Times(x, n) == Round(x.u * n, x.r * n, 1)

\* x < y
Less(x, y) == x.u < y.u \/ (x.u = y.u /\ x.r < y.r)

\* Math.abs and Math.min
AbsOf(x) == IF Less(x, Zero) THEN Neg(x) ELSE x

MinOf(x, y) == IF Less(y, x) THEN y ELSE x

\* parseFloat(x.toFixed(2)), in units: toFixed takes the 2-decimal value
\* nearest to the double itself, so half a cent goes the way the double lies
NearestCent(y) ==
  (y.u \div Cent
     + (IF 2 * (y.u % Cent) > Cent \/ (2 * (y.u % Cent) = Cent /\ y.r >= 0) THEN 1 ELSE 0))
    * Cent

ToFixed2(x) == IF Less(x, Zero) THEN -NearestCent(Neg(x)) ELSE NearestCent(x)

\* the 2-decimal value nearest to n / d units, for a quotient that is not
\* half a cent
Nearest2(n, d) ==
  (n \div (d * Cent) + (IF 2 * (n % (d * Cent)) >= d * Cent THEN 1 ELSE 0)) * Cent

\* parseFloat((x / n).toFixed(2)) for x >= 0 and an integer n >= 1.  Half a
\* cent is met only by a quotient of whole units, where the double decides;
\* any other quotient is too far from half a cent for its error to count.
OverToFixed2(x, n) ==
  IF x.u % n = 0 THEN ToFixed2(Round(x.u \div n, x.r, n)) ELSE Nearest2(x.u, n)

\* --------------------------------------------------------- calculateSplits
\* n/d units cut down to whole cents, for n >= 0
Truncate2(n, d) == (n \div (d * Cent)) * Cent

\* EQUAL with the share cut down instead of rounded
SplitsEqualTruncated(amount, splitBetween) ==
  LET n == Len(splitBetween)
      splitAmount == Truncate2(amount, n)
      lastAmount == Sub(Double(amount), Times(Double(splitAmount), n - 1))
  IN [i \in 1..n |->
        [userId |-> splitBetween[i].userId,
         amount |-> IF i = n THEN ToFixed2(lastAmount) ELSE splitAmount,
         percentage |-> NoPct]]

\* lines 13-25
SplitsEqual(amount, splitBetween) ==
  LET n == Len(splitBetween)
      splitAmount == OverToFixed2(Double(amount), n)
      lastAmount == Sub(Double(amount), Times(Double(splitAmount), n - 1))
  IN [i \in 1..n |->
        [userId |-> splitBetween[i].userId,
         amount |-> IF i = n THEN ToFixed2(lastAmount) ELSE splitAmount,
         percentage |-> NoPct]]

SplitsExact(splitBetween) ==
  [i \in 1..Len(splitBetween) |->
     [userId |-> splitBetween[i].userId,
      amount |-> splitBetween[i].amount,
      percentage |-> NoPct]]

\* totalAmount of lines 28-29: the amounts added one by one, from 0
RECURSIVE TotalAmount(_)
TotalAmount(amounts) ==
  IF amounts = <<>> THEN Zero
  ELSE Add(TotalAmount(SubSeq(amounts, 1, Len(amounts) - 1)), Double(amounts[Len(amounts)]))

\* totalPercentage of line 47: the percentages added one by one, from 0
RECURSIVE TotalPercentage(_)
TotalPercentage(percentages) ==
  IF percentages = <<>> THEN Zero
  ELSE Add(TotalPercentage(SubSeq(percentages, 1, Len(percentages) - 1)),
           Double(percentages[Len(percentages)]))

\* the sign of a whole number
Sign(n) == IF n < 0 THEN -1 ELSE IF n > 0 THEN 1 ELSE 0

\* x * y for two doubles whose decimals multiply to a whole number of units.
\* The product lies (x.u * y.r + y.u * x.r) / 1000 + x.r * y.r / (125 * 2^64)
\* parts above that number; the last term is less than a thousandth of a part
\* and counts by its sign only.  The thousands are split off before anything is
\* multiplied.
TimesWhole(x, y) ==
  LET c1 == x.u * (y.r % 1000)
      c2 == y.u * (x.r % 1000)
      rest == (c1 % 1000) + (c2 % 1000)
      f == x.u * (y.r \div 1000) + y.u * (x.r \div 1000)
             + c1 \div 1000 + c2 \div 1000 + rest \div 1000
      second == Sign(x.r) * Sign(y.r)
  IN RoundWhole((x.u * y.u) \div 1000,
                IF (rest % 1000) = 0 /\ second < 0 THEN f - 1 ELSE f,
                (rest % 1000) # 0 \/ second # 0)

\* line 48: parseFloat(((amount * percentage) / 100).toFixed(2)), for an
\* amount and a percentage of at most three decimal places.  Where the share
\* is half a cent away from two 2-decimal values the doubles of the product
\* and of the quotient decide; any other share is at least 0.00000001 away
\* from half a cent, more than the error of the doubles.
PercentageShare(amount, percentage) ==
  IF (amount * percentage) % (1000 * Percent) = 500 * Percent
  THEN OverToFixed2(TimesWhole(Double(amount), Double(percentage)), 100)
  ELSE Nearest2(amount * percentage, 100 * Percent)

SplitsPercentage(amount, splitBetween) ==
  [i \in 1..Len(splitBetween) |->
     [userId |-> splitBetween[i].userId,
      amount |-> PercentageShare(amount, splitBetween[i].percentage),
      percentage |-> splitBetween[i].percentage]]

Thrown(code, kind) == [ok |-> FALSE, status |-> code, error |-> kind, splits |-> <<>>]

Returned(splits) == [ok |-> TRUE, status |-> 200, error |-> "none", splits |-> splits]

\* lines 7-70
calculateSplits(amount, splitType, splitBetween) ==
  CASE splitType = "EQUAL" -> Returned(SplitsEqual(amount, splitBetween))
    [] splitType = "EXACT" ->
         IF TotalAmount(Amounts(splitBetween)) # Double(amount)
         THEN Thrown(400, "SplitSumMismatch")
         ELSE Returned(SplitsExact(splitBetween))
    [] splitType = "PERCENTAGE" ->
         IF TotalPercentage([i \in 1..Len(splitBetween) |-> splitBetween[i].percentage])
              # Double(100 * Percent)
         THEN Thrown(400, "PercentageSumMismatch")
         ELSE Returned(SplitsPercentage(amount, splitBetween))
    [] OTHER -> Thrown(400, "InvalidSplitType")

\* ------------------------------------------------------- calculateBalances
\* the Map of the code, kept as the sequence of its entries in insertion order
MapHas(m, u) == \E i \in 1..Len(m) : m[i].userId = u

MapGet(m, u) == m[CHOOSE i \in 1..Len(m) : m[i].userId = u].amount

MapSet(m, u, v) ==
  IF MapHas(m, u)
  THEN [m EXCEPT ![CHOOSE i \in 1..Len(m) : m[i].userId = u].amount = v]
  ELSE Append(m, [userId |-> u, amount |-> v])

\* balances.set(u, balances.get(u) + delta), the entry starting at 0
MapAdd(m, u, delta) == MapSet(m, u, Add(IF MapHas(m, u) THEN MapGet(m, u) ELSE Zero, delta))

RECURSIVE DebitSplits(_, _)
DebitSplits(m, splits) ==
  IF splits = <<>> THEN m
  ELSE DebitSplits(MapAdd(m, Head(splits).userId, Neg(Double(Head(splits).amount))),
                   Tail(splits))

RECURSIVE calculateBalances(_)
calculateBalances(expenses) ==
  IF expenses = <<>> THEN <<>>
  ELSE LET rest == calculateBalances(SubSeq(expenses, 1, Len(expenses) - 1))
           expense == expenses[Len(expenses)]
       IN DebitSplits(MapAdd(rest, expense.paidById, Double(expense.amount)), expense.splits)

\* ------------------------------------------------------------------- state
VARIABLES
  members,          \* GroupMember rows: how many each (group, user) pair has
  expenses,         \* Expense rows (each of one group) with their ExpenseSplit
                    \* rows, by expense id
  response,         \* status and error kind of the last call answered
  balances,         \* the Map handed to minimizeCashFlow (entries in order)
  nonZeroBalances,  \* minimizeCashFlow: the working set
  transactions,     \* minimizeCashFlow: the transfers pushed so far
  pc,               \* minimizeCashFlow: "idle", "loop" or "done"
  workingSize,      \* entries of the working set when the loop was entered
  call,             \* a single call under study: its arguments and the store before it
  stage,            \* of that call: "none", "pending" or "done"
  result,           \* what calculateSplits handed back to that call
  settlements,      \* Settlement rows (each of one group), by settlement id
  reply,            \* what the last balance or suggestion request was answered
  group,            \* Group rows (creator and invite code), by group id
  pairing,          \* the pairing loop of getSettlementSuggestions, step by step
  inFlight          \* the requests being served, by call: the request, the await
                    \* the handler is at, what it holds from the queries it has
                    \* made, and its answer once it has one

vars == <<members, expenses, response, balances, nonZeroBalances, transactions,
          pc, workingSize, call, stage, result, settlements, reply, group,
          pairing, inFlight>>

\* the rows of the database
storeVars == <<members, expenses, group, settlements>>

flowVars == <<balances, nonZeroBalances, transactions, pc, workingSize>>

callVars == <<call, stage, result>>

\* what the requests leave besides rows
serverVars == <<response, reply, inFlight>>

\* -------------------------------------------------------- minimizeCashFlow
\* lines 194-197: every balance rounded to 2 decimals
balanceList(m) ==
  [i \in 1..Len(m) |-> [userId |-> m[i].userId, amount |-> Double(ToFixed2(m[i].amount))]]

\* line 200: Math.abs(user.amount) > 0.01
KeptByFilter(amount) == Less(Double(Cent), AbsOf(amount))

FilterNonZero(list) == SelectSeq(list, LAMBDA user : KeptByFilter(user.amount))

\* reduce(..., 0) of lines 207-216: the first index holding the largest amount
RECURSIVE ReduceMax(_, _, _)
ReduceMax(arr, maxIdx, idx) ==
  IF idx > Len(arr) THEN maxIdx
  ELSE ReduceMax(arr, IF Less(arr[maxIdx].amount, arr[idx].amount) THEN idx ELSE maxIdx,
                 idx + 1)

RECURSIVE ReduceMin(_, _, _)
ReduceMin(arr, minIdx, idx) ==
  IF idx > Len(arr) THEN minIdx
  ELSE ReduceMin(arr, IF Less(arr[idx].amount, arr[minIdx].amount) THEN idx ELSE minIdx,
                 idx + 1)

maxCreditIdx(arr) == ReduceMax(arr, 1, 1)

maxDebitIdx(arr) == ReduceMin(arr, 1, 1)

\* line 222, for the two entries picked
minAmount(arr, ci, di) == MinOf(AbsOf(arr[ci].amount), AbsOf(arr[di].amount))

\* lines 225-229: the transfer pushed by one iteration
Transfer(arr, ci, di) ==
  [from |-> arr[di].userId,
   to |-> arr[ci].userId,
   amount |-> ToFixed2(minAmount(arr, ci, di))]

\* lines 232-233: both updates hit the same object when the two indices agree
Updated(arr, ci, di) ==
  LET m == minAmount(arr, ci, di)
      a1 == [arr EXCEPT ![ci].amount = Sub(@, m)]
  IN [a1 EXCEPT ![di].amount = Add(@, m)]

\* Math.abs(amount) < 0.01
BelowCent(amount) == Less(AbsOf(amount), Double(Cent))

\* lines 236-245: the two splices
Spliced(upd, ci, di) ==
  IF BelowCent(upd[di].amount)
  THEN Splice(IF BelowCent(upd[ci].amount) THEN Splice(upd, ci) ELSE upd,
              IF di > ci /\ BelowCent(upd[ci].amount) THEN di - 1 ELSE di)
  ELSE IF BelowCent(upd[ci].amount) THEN Splice(upd, ci) ELSE upd

Removed(arr, ci, di) == Spliced(Updated(arr, ci, di), ci, di)

\* entry of minimizeCashFlow up to the first test of the while condition
FlowStart ==
  /\ pc = "idle"
  /\ nonZeroBalances' = FilterNonZero(balanceList(balances))
  /\ workingSize' = Len(FilterNonZero(balanceList(balances)))
  /\ transactions' = <<>>
  /\ pc' = "loop"
  /\ UNCHANGED <<balances, storeVars, callVars, serverVars, pairing>>

\* one iteration of the while loop (the loop has no cap of its own; the model
\* follows MaxIter iterations)
FlowStep ==
  /\ pc = "loop"
  /\ Len(nonZeroBalances) > 1
  /\ Len(transactions) < MaxIter
  /\ transactions' = Append(transactions,
                            Transfer(nonZeroBalances, maxCreditIdx(nonZeroBalances),
                                     maxDebitIdx(nonZeroBalances)))
  /\ nonZeroBalances' = Removed(nonZeroBalances, maxCreditIdx(nonZeroBalances),
                                maxDebitIdx(nonZeroBalances))
  /\ UNCHANGED <<pc, balances, workingSize, storeVars, callVars, serverVars, pairing>>

\* the while condition fails: return transactions
FlowReturn ==
  /\ pc = "loop"
  /\ Len(nonZeroBalances) <= 1
  /\ pc' = "done"
  /\ UNCHANGED <<balances, nonZeroBalances, transactions, workingSize, storeVars,
                 callVars, serverVars, pairing>>

\* minimizeCashFlow as one call: the while loop of lines 205-246 run to its
\* end, followed for MaxIter iterations (the loop has no cap of its own)
RECURSIVE WhileLoop(_, _)
WhileLoop(arr, txs) ==
  IF Len(arr) <= 1 THEN [returned |-> TRUE, transactions |-> txs]
  ELSE IF Len(txs) >= MaxIter THEN [returned |-> FALSE, transactions |-> txs]
  ELSE WhileLoop(Removed(arr, maxCreditIdx(arr), maxDebitIdx(arr)),
                 Append(txs, Transfer(arr, maxCreditIdx(arr), maxDebitIdx(arr))))

minimizeCashFlow(m) == WhileLoop(FilterNonZero(balanceList(m)), <<>>)

\* ------------------------------------------ balances listed, transfers paired
BalanceType(amount) == IF Less(Zero, amount) THEN "owed" ELSE "owes"

\* getGroupBalances, lines 304-327: round, then keep what is at least 0.01
formattedBalances(m) ==
  SelectSeq([i \in 1..Len(m) |->
               [userId |-> m[i].userId,
                amount |-> Double(ToFixed2(m[i].amount)),
                type |-> BalanceType(Double(ToFixed2(m[i].amount)))]],
            LAMBDA b : ~BelowCent(b.amount))

\* getSettlementSuggestions, lines 209-215: keep what is at least 0.01, then
\* round; the type is read off the amount before rounding
suggestionBalanceList(m) ==
  LET kept == SelectSeq(m, LAMBDA b : ~BelowCent(b.amount))
  IN [i \in 1..Len(kept) |->
        [userId |-> kept[i].userId,
         amount |-> Double(ToFixed2(kept[i].amount)),
         type |-> BalanceType(kept[i].amount)]]

\* Array.prototype.sort with the comparator sign * (a.amount - b.amount):
\* entries of equal amount keep their order
RECURSIVE InsertSorted(_, _, _)
InsertSorted(x, s, sign) ==
  IF s = <<>> THEN <<x>>
  ELSE IF (sign = 1 /\ Less(x.amount, Head(s).amount))
          \/ (sign = -1 /\ Less(Head(s).amount, x.amount))
       THEN <<x>> \o s
       ELSE <<Head(s)>> \o InsertSorted(x, Tail(s), sign)

RECURSIVE StableSort(_, _)
StableSort(s, sign) ==
  IF s = <<>> THEN <<>>
  ELSE InsertSorted(s[Len(s)], StableSort(SubSeq(s, 1, Len(s) - 1), sign), sign)

\* lines 219-220
positiveBalances(list) == StableSort(SelectSeq(list, LAMBDA b : Less(Zero, b.amount)), -1)

negativeBalances(list) == StableSort(SelectSeq(list, LAMBDA b : Less(b.amount, Zero)), 1)

\* line 229
pairAmount(pos, neg, i, j) == MinOf(pos[i].amount, AbsOf(neg[j].amount))

\* the transfer pushed by one iteration of the two-pointer loop, lines 229-235
Suggestion(pos, neg, i, j) ==
  [from |-> neg[j].userId,
   to |-> pos[i].userId,
   amount |-> ToFixed2(pairAmount(pos, neg, i, j))]

\* the state of the pairing loop: where it is, the two sorted lists, the two
\* indices (from 1) and the suggestions pushed
Pairing(at, pos, neg, i, j, suggestions) ==
  [pc |-> at, positiveBalances |-> pos, negativeBalances |-> neg, i |-> i, j |-> j,
   suggestions |-> suggestions]

NoPairing == Pairing("idle", <<>>, <<>>, 1, 1, <<>>)

\* lines 217-223: the two sorted lists, both indices at the first entry
PairEntry(list) == Pairing("loop", positiveBalances(list), negativeBalances(list), 1, 1, <<>>)

\* lines 240-241: each index moves on when its entry is within 0.01 of zero
PairMoved(pos2, neg2, i, j, suggestions) ==
  Pairing("loop", pos2, neg2,
          IF BelowCent(pos2[i].amount) THEN i + 1 ELSE i,
          IF BelowCent(neg2[j].amount) THEN j + 1 ELSE j,
          suggestions)

\* lines 226-241: one iteration of the loop
PairIteration(pos, neg, i, j, suggestions) ==
  PairMoved([pos EXCEPT ![i].amount = Sub(@, pairAmount(pos, neg, i, j))],
            [neg EXCEPT ![j].amount = Add(@, pairAmount(pos, neg, i, j))],
            i, j, Append(suggestions, Suggestion(pos, neg, i, j)))

\* line 225: the while condition
PairGoesOn(s) == s.i <= Len(s.positiveBalances) /\ s.j <= Len(s.negativeBalances)

\* lines 225-242: the loop run to its end
RECURSIVE PairLoop(_)
PairLoop(s) ==
  IF ~PairGoesOn(s) THEN s
  ELSE PairLoop(PairIteration(s.positiveBalances, s.negativeBalances, s.i, s.j,
                              s.suggestions))

\* the pairing done by the greedy loop of minimizeCashFlow instead
PairBalancesGreedy(list) ==
  [positiveBalances |-> positiveBalances(list),
   negativeBalances |-> negativeBalances(list),
   suggestions |-> WhileLoop(list, <<>>).transactions]

PairBalances(list) == PairLoop(PairEntry(list))

\* balanceList as it is serialised at line 247: filter() and sort() copy the
\* array, not its objects, so each entry carries what the loop left in it
balanceListAfter(list, run) ==
  LET worked == run.positiveBalances \o run.negativeBalances
  IN [k \in 1..Len(list) |->
        IF \E w \in 1..Len(worked) : worked[w].userId = list[k].userId
        THEN [list[k] EXCEPT !.amount =
                worked[CHOOSE w \in 1..Len(worked) : worked[w].userId = list[k].userId].amount]
        ELSE list[k]]

\* lines 208-249: the list, its pairing, and what is sent of both
Paired(list, run) ==
  [balances |-> balanceListAfter(list, run), suggestions |-> run.suggestions]

Suggestions(m) == Paired(suggestionBalanceList(m), PairBalances(suggestionBalanceList(m)))

\* ---------------------------------------------------------------- requests
NoCall == [op |-> "none"]

\* A Group row: its creator and its invite code.  group holds the Group rows
\* by id; a request names the group it is about, and a request about a group
\* that is gone finds none of its rows.
Group(createdBy, inviteCode) == [createdBy |-> createdBy, inviteCode |-> inviteCode]

\* the ids of the Group rows
GroupIds == 1..MaxGroups

\* no Group row yet
NoGroups == <<>>

\* the group of u1, with the code it was created with
OneGroup == 1 :> Group("u1", "A1B2C3")

\* group.findUnique / findFirst by id finds a row
IsGroup(groupId) == groupId \in DOMAIN group

\* the GroupMember rows: how many rows each (group, user) pair has
NoMembers == [r \in GroupIds \X Users |-> 0]

\* one row for each of the users, in the group named
MembersOf(groupId, users) ==
  [r \in GroupIds \X Users |-> IF r[1] = groupId /\ r[2] \in users THEN 1 ELSE 0]

RowCount(groupId, userId) ==
  IF <<groupId, userId>> \in DOMAIN members THEN members[<<groupId, userId>>] ELSE 0

\* groupMember.count({ where: { groupId } })
RECURSIVE RowsAmong(_, _)
RowsAmong(groupId, users) ==
  IF users = {} THEN 0
  ELSE LET u == CHOOSE x \in users : TRUE
       IN RowCount(groupId, u) + RowsAmong(groupId, users \ {u})

MemberCount(groupId) == RowsAmong(groupId, Users)

NoResult == Thrown(0, "none")

OK(code) == [status |-> code, error |-> "none"]

Fail(code, kind) == [status |-> code, error |-> kind]

SplitType == {"EQUAL", "EXACT", "PERCENTAGE"}

\* the body of an expense request.  A field left out is falsy: amount 0,
\* splitType "", hasSplitBetween FALSE; other is the description (with the
\* category, for updateExpense).
Body(other, amount, splitType, hasSplitBetween, splitBetween) ==
  [other |-> other, amount |-> amount, splitType |-> splitType,
   hasSplitBetween |-> hasSplitBetween, splitBetween |-> splitBetween]

NoBody == Body(FALSE, 0, "", FALSE, <<>>)

\* a request as it reaches its handler: the caller, the group, the row and
\* the user, code or amount it names, its body
Request(op, userId, groupId, id, target, body) ==
  [op |-> op, userId |-> userId, groupId |-> groupId, id |-> id, target |-> target,
   body |-> body, at |-> "start", held |-> <<>>, response |-> OK(0)]

\* a call slot with no request in it
NoRequest == [Request("none", "none", 0, "none", "none", NoBody) EXCEPT !.at = "done"]

\* the answer to a balance or suggestion request: the caller, the status and
\* error kind, the balances and transfers of the body, the queries issued
Reply(handler, userId, status, error, list, transfers, queries) ==
  [handler |-> handler, userId |-> userId, status |-> status, error |-> error,
   balances |-> list, transactions |-> transfers, queries |-> queries]

NoReply == Reply("none", "none", 0, "none", <<>>, <<>>, <<>>)


SplitUsers(splitBetween) == {splitBetween[i].userId : i \in 1..Len(splitBetween)}

\* a handler caught in a loop that does not end keeps the one thread of the
\* server: no other handler goes on
Hung == \E q \in DOMAIN inFlight : inFlight[q].at = "looping"

\* the handler op of call p is at the await named
Serving(p, op, at) ==
  /\ p \in DOMAIN inFlight
  /\ ~Hung
  /\ inFlight[p].op = op
  /\ inFlight[p].at = at

\* the handler goes on to its next await, holding held
Proceed(p, at, held) ==
  /\ inFlight' = [inFlight EXCEPT ![p].at = at, ![p].held = held]
  /\ UNCHANGED response

\* the handler returns or throws: the request is answered
Answered(p, r) ==
  /\ inFlight' = [inFlight EXCEPT ![p].at = "done", ![p].response = r]
  /\ response' = r

\* a balance or suggestion request is answered
Replied(p, r) ==
  /\ inFlight' = [inFlight EXCEPT ![p].at = "done",
                                  ![p].response = [status |-> r.status, error |-> r.error]]
  /\ reply' = r
  /\ UNCHANGED response

\* groupMember.findFirst({ where: { groupId, userId } }) finds a row
IsMember(groupId, userId) == RowCount(groupId, userId) > 0

\* the ids of new rows: any id no stored row has and no request in flight names
ExpenseIds == {"e1", "e2", "e3", "e4"}

SettlementIds == {"s1", "s2", "s3", "s4"}

NamedInFlight == {inFlight[q].id : q \in {x \in DOMAIN inFlight : inFlight[x].at # "done"}}

\* the ids of new Group rows, likewise: a joinGroup past its first query names
\* the group it found
GroupsInFlight ==
  {IF inFlight[q].op = "joinGroup" /\ inFlight[q].at # "start"
   THEN inFlight[q].held.groupId
   ELSE inFlight[q].groupId : q \in {x \in DOMAIN inFlight : inFlight[x].at # "done"}}

FreeGroupIds == GroupIds \ (DOMAIN group \cup GroupsInFlight)

NewGroupId == CHOOSE id \in FreeGroupIds : TRUE

FreeIds(pool, rows) == pool \ (DOMAIN rows \cup NamedInFlight)

NewId(pool, rows) == CHOOSE id \in FreeIds(pool, rows) : TRUE

\* ------------------------------------------------------------ expense calls
\* the Expense row written by createExpense (lines 112-123)
NewExpense(groupId, userId, amount, splitType, splits) ==
  [groupId |-> groupId, paidById |-> userId, amount |-> amount, splitType |-> splitType,
   splits |-> splits]

\* POST /api/expenses with a controller that lets an empty splitBetween list
\* through to the service
createExpense_findFirstAnyList(p) ==
  /\ Serving(p, "createExpense", "start")
  /\ LET c == inFlight[p]
         b == c.body
     IN IF ~b.other \/ b.amount = 0 \/ b.splitType = "" \/ ~b.hasSplitBetween
        THEN Answered(p, Fail(400, "MissingFields"))
        ELSE IF b.amount < 0
        THEN Answered(p, Fail(400, "BadAmount"))
        ELSE IF b.splitType \notin SplitType
        THEN Answered(p, Fail(400, "InvalidSplitType"))
        ELSE IF ~IsMember(c.groupId, c.userId)
        THEN Answered(p, Fail(403, "NotAMember"))
        ELSE Proceed(p, "findMany", <<>>)
  /\ UNCHANGED <<storeVars, reply, flowVars, pairing>>

\* POST /api/expenses: the controller's checks and the service up to the
\* answer of groupMember.findFirst (line 82)
createExpense_findFirst(p) ==
  /\ Serving(p, "createExpense", "start")
  /\ LET c == inFlight[p]
         b == c.body
     IN IF ~b.other \/ b.amount = 0 \/ b.splitType = "" \/ ~b.hasSplitBetween
        THEN Answered(p, Fail(400, "MissingFields"))
        ELSE IF b.amount < 0
        THEN Answered(p, Fail(400, "BadAmount"))
        ELSE IF Len(b.splitBetween) = 0
        THEN Answered(p, Fail(400, "EmptyParticipantSet"))
        ELSE IF b.splitType \notin SplitType
        THEN Answered(p, Fail(400, "InvalidSplitType"))
        ELSE IF ~IsMember(c.groupId, c.userId)
        THEN Answered(p, Fail(403, "NotAMember"))
        ELSE Proceed(p, "findMany", <<>>)
  /\ UNCHANGED <<storeVars, reply, flowVars, pairing>>

\* calculateSplits returned or threw (line 106)
SplitsComputed(p, r) ==
  IF ~r.ok
  THEN Answered(p, Fail(r.status, r.error))
  ELSE Proceed(p, "transaction", [splits |-> r.splits])

\* groupMember.findMany (line 94) answers the GroupMember rows of the split
\* users in the group; line 102 compares their number with the number of
\* distinct split users
createExpense_findMany(p) ==
  /\ Serving(p, "createExpense", "findMany")
  /\ LET c == inFlight[p]
         b == c.body
         found == RowsAmong(c.groupId, SplitUsers(b.splitBetween))
     IN IF found # Cardinality(SplitUsers(b.splitBetween))
        THEN Answered(p, Fail(400, "SplitUserNotMember"))
        ELSE SplitsComputed(p, calculateSplits(b.amount, b.splitType, b.splitBetween))
  /\ UNCHANGED <<storeVars, reply, flowVars, pairing>>

\* the $transaction of line 110: the expense and its splits are written.  The
\* expense row refers to its group: with the group gone the create fails.
createExpense_transaction(p) ==
  /\ Serving(p, "createExpense", "transaction")
  /\ LET c == inFlight[p]
     IN IF ~IsGroup(c.groupId)
        THEN /\ Answered(p, Fail(500, "ForeignKeyViolation"))
             /\ UNCHANGED expenses
        ELSE /\ FreeIds(ExpenseIds, expenses) # {}
             /\ expenses' = expenses @@
                              (NewId(ExpenseIds, expenses) :>
                                 NewExpense(c.groupId, c.userId, c.body.amount,
                                            c.body.splitType, c.held.splits))
             /\ Answered(p, OK(201))
  /\ UNCHANGED <<members, group, settlements, reply, flowVars, pairing>>

createExpense(p) ==
  \/ createExpense_findFirst(p)
  \/ createExpense_findMany(p)
  \/ createExpense_transaction(p)

\* PATCH /api/expenses/:id: the controller's checks, expense.findUnique with
\* the caller's membership (line 241), and the splits computed from what it
\* returned (lines 264-268)
SplitsRecomputed(p, used, r) ==
  IF ~r.ok
  THEN Answered(p, Fail(r.status, r.error))
  ELSE Proceed(p, "deleteMany", [recalc |-> TRUE, used |-> used, splits |-> r.splits])

\* lines 264-268: the splits are computed again when the body has both a
\* splitType and a splitBetween, from the body's amount or the stored one;
\* with no new splits the callback of line 271 goes to the update at once
SplitsOnUpdate(p, b, used) ==
  IF b.splitType # "" /\ b.hasSplitBetween
  THEN SplitsRecomputed(p, used, calculateSplits(used, b.splitType, b.splitBetween))
  ELSE Proceed(p, "update", [recalc |-> FALSE, used |-> used, splits |-> <<>>])

updateExpense_findUnique(p) ==
  /\ Serving(p, "updateExpense", "start")
  /\ LET c == inFlight[p]
         b == c.body
     IN IF ~b.other /\ b.amount = 0 /\ b.splitType = "" /\ ~b.hasSplitBetween
        THEN Answered(p, Fail(400, "NothingToUpdate"))
        ELSE IF b.amount < 0
        THEN Answered(p, Fail(400, "BadAmount"))
        ELSE IF b.hasSplitBetween /\ Len(b.splitBetween) = 0
        THEN Answered(p, Fail(400, "EmptyParticipantSet"))
        ELSE IF c.id \notin DOMAIN expenses
        THEN Answered(p, Fail(404, "NotFound"))
        ELSE IF ~IsMember(expenses[c.id].groupId, c.userId)
        THEN Answered(p, Fail(403, "NotAMember"))
        ELSE SplitsOnUpdate(p, b, IF b.amount # 0 THEN b.amount ELSE expenses[c.id].amount)
  /\ UNCHANGED <<storeVars, reply, flowVars, pairing>>

\* the callback of the $transaction of line 271 waits twice.  Each statement
\* acts on the rows as they are when it is answered: what the database keeps
\* apart between the two is the database's, not the handler's.
\* expenseSplit.deleteMany (line 274): the splits of the expense go; an
\* expense that is gone has none, and deleteMany of no rows succeeds
updateExpense_deleteMany(p) ==
  /\ Serving(p, "updateExpense", "deleteMany")
  /\ LET c == inFlight[p]
     IN /\ expenses' = IF c.id \in DOMAIN expenses
                       THEN [expenses EXCEPT ![c.id].splits = <<>>]
                       ELSE expenses
        /\ Proceed(p, "update", c.held)
  /\ UNCHANGED <<members, group, settlements, reply, flowVars, pairing>>

\* expense.update (line 280): the fields the body carries are written and the
\* new splits created beside whatever splits the expense has by now; the
\* update of a row that is gone fails
updateExpense_update(p) ==
  /\ Serving(p, "updateExpense", "update")
  /\ LET c == inFlight[p]
         b == c.body
     IN IF c.id \notin DOMAIN expenses
        THEN /\ Answered(p, Fail(500, "RecordNotFound"))
             /\ UNCHANGED expenses
        ELSE /\ expenses' =
                  [expenses EXCEPT ![c.id] =
                     [groupId |-> @.groupId,
                      paidById |-> @.paidById,
                      amount |-> IF b.amount # 0 THEN b.amount ELSE @.amount,
                      splitType |-> IF b.splitType # "" THEN b.splitType ELSE @.splitType,
                      splits |-> IF c.held.recalc THEN @.splits \o c.held.splits
                                 ELSE @.splits]]
             /\ Answered(p, OK(200))
  /\ UNCHANGED <<members, group, settlements, reply, flowVars, pairing>>

updateExpense(p) ==
  \/ updateExpense_findUnique(p)
  \/ updateExpense_deleteMany(p)
  \/ updateExpense_update(p)

\* DELETE /api/expenses/:id: expense.findUnique with the caller's membership
\* (line 324)
deleteExpense_findUnique(p) ==
  /\ Serving(p, "deleteExpense", "start")
  /\ LET c == inFlight[p]
     IN IF c.id \notin DOMAIN expenses
        THEN Answered(p, Fail(404, "NotFound"))
        ELSE IF ~IsMember(expenses[c.id].groupId, c.userId)
        THEN Answered(p, Fail(403, "NotAMember"))
        ELSE Proceed(p, "delete", <<>>)
  /\ UNCHANGED <<storeVars, reply, flowVars, pairing>>

\* expense.delete (line 348): the splits go with the expense; a row that is
\* gone makes the delete fail
deleteExpense_delete(p) ==
  /\ Serving(p, "deleteExpense", "delete")
  /\ LET c == inFlight[p]
     IN IF c.id \notin DOMAIN expenses
        THEN /\ Answered(p, Fail(500, "RecordNotFound"))
             /\ UNCHANGED expenses
        ELSE /\ expenses' = [e \in DOMAIN expenses \ {c.id} |-> expenses[e]]
             /\ Answered(p, OK(204))
  /\ UNCHANGED <<members, group, settlements, reply, flowVars, pairing>>

deleteExpense(p) == deleteExpense_findUnique(p) \/ deleteExpense_delete(p)

\* every order of the elements of a set
RECURSIVE Orderings(_)
Orderings(S) ==
  IF S = {} THEN {<<>>}
  ELSE UNION {{<<x>> \o l : l \in Orderings(S \ {x})} : x \in S}

\* include: { splits } has no orderBy: the splits of an expense in any of the
\* orders the database may answer them in
SplitOrders(splits) ==
  {[i \in 1..Len(l) |-> splits[l[i]]] : l \in Orderings(1..Len(splits))}

\* the rows of the expenses named by ids, in that order, each with its splits
\* in any order
RECURSIVE RowsRead(_)
RowsRead(ids) ==
  IF ids = <<>> THEN {<<>>}
  ELSE {<<[expenses[Head(ids)] EXCEPT !.splits = s]>> \o rest :
          s \in SplitOrders(expenses[Head(ids)].splits), rest \in RowsRead(Tail(ids))}

\* findMany({ where: { groupId }, include: { splits } }) has no orderBy: the
\* group's expenses with their splits, in any of the orders the database may
\* answer them in
GroupExpenses(groupId) ==
  UNION {RowsRead(l) :
           l \in Orderings({id \in DOMAIN expenses : expenses[id].groupId = groupId})}

\* ---------------------------------------------- balance and suggestion calls
\* GET /api/balances/group/:groupId with the expenses read ahead of the
\* membership check
getGroupBalances_findFirstAfterRead(p) ==
  /\ Serving(p, "getGroupBalances", "start")
  /\ LET c == inFlight[p]
     IN IF ~IsMember(c.groupId, c.userId)
        THEN Replied(p, Reply("getGroupBalances", c.userId, 403, "NotAMember", <<>>, <<>>,
                              <<"expense.findMany", "groupMember.findFirst">>))
        ELSE /\ Proceed(p, "expense.findMany",
                        [queries |-> <<"expense.findMany", "groupMember.findFirst">>])
             /\ UNCHANGED reply
  /\ UNCHANGED <<storeVars, flowVars, pairing>>

\* GET /api/balances/group/:groupId: groupMember.findFirst (line 254)
getGroupBalances_findFirst(p) ==
  /\ Serving(p, "getGroupBalances", "start")
  /\ LET c == inFlight[p]
     IN IF ~IsMember(c.groupId, c.userId)
        THEN Replied(p, Reply("getGroupBalances", c.userId, 403, "NotAMember", <<>>, <<>>,
                              <<"groupMember.findFirst">>))
        ELSE /\ Proceed(p, "expense.findMany", [queries |-> <<"groupMember.findFirst">>])
             /\ UNCHANGED reply
  /\ UNCHANGED <<storeVars, flowVars, pairing>>

\* expense.findMany (line 266), answered in one of the orders it may be, and
\* calculateBalances
getGroupBalances_findMany(p) ==
  /\ Serving(p, "getGroupBalances", "expense.findMany")
  /\ LET c == inFlight[p]
     IN \E rows \in GroupExpenses(c.groupId) :
          Proceed(p, "user.findMany",
                  [queries |-> Append(c.held.queries, "expense.findMany"),
                   expenses |-> rows,
                   balances |-> calculateBalances(rows)])
  /\ UNCHANGED <<storeVars, reply, flowVars, pairing>>

\* user.findMany (line 293), formattedBalances and minimizeCashFlow.  A loop
\* that does not end keeps the handler, and the server, where it is.
Formatted(p, held, run) ==
  IF run.returned
  THEN Proceed(p, "transactionUsers.findMany",
               [queries |-> Append(held.queries, "user.findMany"),
                expenses |-> held.expenses,
                balances |-> formattedBalances(held.balances),
                transactions |-> run.transactions])
  ELSE Proceed(p, "looping", [queries |-> Append(held.queries, "user.findMany"),
                              expenses |-> held.expenses])

getGroupBalances_users(p) ==
  /\ Serving(p, "getGroupBalances", "user.findMany")
  /\ Formatted(p, inFlight[p].held, minimizeCashFlow(inFlight[p].held.balances))
  /\ UNCHANGED <<storeVars, reply, flowVars, pairing>>

\* user.findMany (line 339) and the answer
getGroupBalances_transactionUsers(p) ==
  /\ Serving(p, "getGroupBalances", "transactionUsers.findMany")
  /\ LET c == inFlight[p]
     IN Replied(p, Reply("getGroupBalances", c.userId, 200, "none", c.held.balances,
                         c.held.transactions, Append(c.held.queries, "user.findMany")))
  /\ UNCHANGED <<storeVars, flowVars, pairing>>

getGroupBalances(p) ==
  \/ getGroupBalances_findFirst(p)
  \/ getGroupBalances_findMany(p)
  \/ getGroupBalances_users(p)
  \/ getGroupBalances_transactionUsers(p)

\* the Settlement row of one suggested transfer
SuggestedSettlement(groupId, t) ==
  [groupId |-> groupId, paidById |-> t.from, paidToId |-> t.to, amount |-> t.amount]

\* a balance or suggestion request is answered, holding held
RepliedHolding(p, r, held) ==
  /\ inFlight' = [inFlight EXCEPT ![p].at = "done",
                                  ![p].held = held,
                                  ![p].response = [status |-> r.status, error |-> r.error]]
  /\ reply' = r
  /\ UNCHANGED response

\* GET /api/settlements/suggestions/group/:groupId: groupMember.findFirst
\* (line 146)
getSettlementSuggestions_findFirst(p) ==
  /\ Serving(p, "getSettlementSuggestions", "start")
  /\ LET c == inFlight[p]
     IN IF ~IsMember(c.groupId, c.userId)
        THEN Replied(p, Reply("getSettlementSuggestions", c.userId, 403, "NotAMember",
                              <<>>, <<>>, <<"groupMember.findFirst">>))
        ELSE /\ Proceed(p, "expense.findMany", [queries |-> <<"groupMember.findFirst">>])
             /\ UNCHANGED reply
  /\ UNCHANGED <<storeVars, flowVars, pairing>>

\* the answer of getSettlementSuggestions: the balances (lines 181-215) and
\* the pairing (lines 217-242)
SuggestionsReply(userId, queries, s) ==
  Reply("getSettlementSuggestions", userId, 200, "none", s.balances, s.suggestions, queries)

\* the expenses read, and the queries made to read them
Read(held, rows) ==
  [queries |-> Append(held.queries, "expense.findMany"), expenses |-> rows]

\* expense.findMany (line 158) and the answer, with the first suggestion
\* written as a Settlement row
getSettlementSuggestions_findManyRecording(p) ==
  /\ Serving(p, "getSettlementSuggestions", "expense.findMany")
  /\ LET c == inFlight[p]
     IN \E rows \in GroupExpenses(c.groupId) :
          LET run == Suggestions(calculateBalances(rows))
          IN /\ RepliedHolding(p, SuggestionsReply(c.userId, Read(c.held, rows).queries, run),
                               Read(c.held, rows))
             /\ IF run.suggestions # <<>> /\ FreeIds(SettlementIds, settlements) # {}
                THEN settlements' = settlements @@
                                      (NewId(SettlementIds, settlements) :>
                                         SuggestedSettlement(c.groupId, run.suggestions[1]))
                ELSE UNCHANGED settlements
  /\ UNCHANGED <<members, expenses, group, flowVars, pairing>>

\* expense.findMany (line 158), answered in one of the orders it may be, and
\* the answer
getSettlementSuggestions_findMany(p) ==
  /\ Serving(p, "getSettlementSuggestions", "expense.findMany")
  /\ LET c == inFlight[p]
     IN \E rows \in GroupExpenses(c.groupId) :
          RepliedHolding(p, SuggestionsReply(c.userId, Read(c.held, rows).queries,
                                             Suggestions(calculateBalances(rows))),
                         Read(c.held, rows))
  /\ UNCHANGED <<storeVars, flowVars, pairing>>

getSettlementSuggestions(p) ==
  getSettlementSuggestions_findFirst(p) \/ getSettlementSuggestions_findMany(p)

\* the answer of getUserBalances: the entries and the three totals
UserBalances(userId, entries, owed, owe, queries) ==
  [summary |-> [totalOwed |-> ToFixed2(owed), totalOwe |-> ToFixed2(owe),
                netBalance |-> ToFixed2(Sub(owed, owe))]]
    @@ Reply("getUserBalances", userId, 200, "none", entries, <<>>, queries)

\* groupMember.findMany({ where: { userId } }) has no orderBy: the groups of
\* the caller's GroupMember rows, one per row, in any order
Memberships(userId) ==
  {[i \in 1..Len(l) |-> l[i][1]] :
     l \in Orderings(UNION {{<<g, k>> : k \in 1..RowCount(g, userId)} : g \in GroupIds})}

\* GET /api/balances/me: groupMember.findMany (line 368); with no membership
\* the loop of line 385 has nothing to do
getUserBalances_memberships(p) ==
  /\ Serving(p, "getUserBalances", "start")
  /\ LET c == inFlight[p]
     IN \E groupMemberships \in Memberships(c.userId) :
          IF groupMemberships = <<>>
          THEN Replied(p, UserBalances(c.userId, <<>>, Zero, Zero, <<"groupMember.findMany">>))
          ELSE /\ Proceed(p, "expense.findMany",
                          [groupMemberships |-> groupMemberships, groupBalances |-> <<>>,
                           totalOwed |-> Zero, totalOwe |-> Zero,
                           queries |-> <<"groupMember.findMany">>])
               /\ UNCHANGED reply
  /\ UNCHANGED <<storeVars, flowVars, pairing>>

\* line 415: balances.get(userId) || 0
BalanceOr0(m, userId) == IF MapHas(m, userId) THEN MapGet(m, userId) ELSE Zero

\* lines 417-429 for one membership: the entry pushed and the two totals
GroupBalance(held, groupId, userBalance) ==
  [groupMemberships |-> Tail(held.groupMemberships),
   groupBalances |-> IF ~BelowCent(userBalance)
                     THEN Append(held.groupBalances,
                                 [group |-> groupId, amount |-> Double(ToFixed2(userBalance)),
                                  type |-> BalanceType(userBalance)])
                     ELSE held.groupBalances,
   totalOwed |-> IF ~BelowCent(userBalance) /\ Less(Zero, userBalance)
                 THEN Add(held.totalOwed, userBalance) ELSE held.totalOwed,
   totalOwe |-> IF ~BelowCent(userBalance) /\ ~Less(Zero, userBalance)
                THEN Add(held.totalOwe, AbsOf(userBalance)) ELSE held.totalOwe,
   queries |-> Append(held.queries, "expense.findMany")]

\* the loop of line 385 goes on to its next membership, or the answer is sent
NextMembership(p, userId, held) ==
  IF held.groupMemberships = <<>>
  THEN RepliedHolding(p, UserBalances(userId, held.groupBalances, held.totalOwed,
                                      held.totalOwe, held.queries), held)
  ELSE /\ Proceed(p, "expense.findMany", held)
       /\ UNCHANGED reply

\* expense.findMany (line 389) for the membership the loop is at, answered in
\* one of the orders it may be, and the user's balance in that group
getUserBalances_findMany(p) ==
  /\ Serving(p, "getUserBalances", "expense.findMany")
  /\ LET c == inFlight[p]
         groupId == Head(c.held.groupMemberships)
     IN \E rows \in GroupExpenses(groupId) :
          NextMembership(p, c.userId,
                         GroupBalance(c.held, groupId,
                                      BalanceOr0(calculateBalances(rows), c.userId)))
  /\ UNCHANGED <<storeVars, flowVars, pairing>>

getUserBalances(p) == getUserBalances_memberships(p) \/ getUserBalances_findMany(p)

\* ------------------------------------------------ groups and settlements
\* the invite codes generateInviteCode can come up with, as far as followed
GeneratedCodes == {"A1B2C3", "D4E5F6"}

\* the group holding the invite code, if any
GroupsWithCode(inviteCode) == {g \in DOMAIN group : group[g].inviteCode = inviteCode}

\* one more GroupMember row
MemberAdded(groupId, userId) == [members EXCEPT ![<<groupId, userId>>] = @ + 1]

\* POST /api/groups: generateInviteCode and group.create with the creator's
\* GroupMember row (line 377).  inviteCode is unique among the Group rows
\* (joinGroup looks a group up by it): the create fails on a code that a
\* group holds already.
createGroup(p) ==
  /\ Serving(p, "createGroup", "start")
  /\ LET c == inFlight[p]
     IN IF ~c.body.other
        THEN /\ Answered(p, Fail(400, "NameRequired"))
             /\ UNCHANGED <<group, members>>
        ELSE \E inviteCode \in GeneratedCodes :
               IF GroupsWithCode(inviteCode) # {}
               THEN /\ Answered(p, Fail(500, "UniqueConstraintViolation"))
                    /\ UNCHANGED <<group, members>>
               ELSE /\ FreeGroupIds # {}
                    /\ group' = group @@ (NewGroupId :> Group(c.userId, inviteCode))
                    /\ members' = MemberAdded(NewGroupId, c.userId)
                    /\ Answered(p, OK(201))
  /\ UNCHANGED <<expenses, settlements, reply, flowVars, pairing>>

\* POST /api/groups/join: inviteCode is "none" when left out.
\* group.findUnique({ where: { inviteCode } }) (line 483) finds whichever
\* group holds the code.
joinGroup_findUnique(p) ==
  /\ Serving(p, "joinGroup", "start")
  /\ LET c == inFlight[p]
     IN IF c.target = "none"
        THEN Answered(p, Fail(400, "InviteCodeRequired"))
        ELSE IF GroupsWithCode(c.target) = {}
        THEN Answered(p, Fail(400, "InvalidInviteCode"))
        ELSE Proceed(p, "findFirst", [groupId |-> CHOOSE g \in GroupsWithCode(c.target) : TRUE])
  /\ UNCHANGED <<storeVars, reply, flowVars, pairing>>

\* groupMember.findFirst (line 492)
joinGroup_findFirst(p) ==
  /\ Serving(p, "joinGroup", "findFirst")
  /\ LET c == inFlight[p]
     IN IF IsMember(c.held.groupId, c.userId)
        THEN Answered(p, Fail(400, "AlreadyMember"))
        ELSE Proceed(p, "create", c.held)
  /\ UNCHANGED <<storeVars, reply, flowVars, pairing>>

\* groupMember.create (line 504).  The row refers to its group.  For a user
\* who has joined meanwhile a second row is written where the table has no
\* unique key on (groupId, userId), and refused where it has one.
joinGroup_create(p) ==
  /\ Serving(p, "joinGroup", "create")
  /\ LET c == inFlight[p]
     IN IF ~IsGroup(c.held.groupId)
        THEN /\ Answered(p, Fail(500, "ForeignKeyViolation"))
             /\ UNCHANGED members
        ELSE \/ /\ members' = MemberAdded(c.held.groupId, c.userId)
                /\ Answered(p, OK(200))
             \/ /\ IsMember(c.held.groupId, c.userId)
                /\ Answered(p, Fail(500, "UniqueConstraintViolation"))
                /\ UNCHANGED members
  /\ UNCHANGED <<group, expenses, settlements, reply, flowVars, pairing>>

joinGroup(p) == joinGroup_findUnique(p) \/ joinGroup_findFirst(p) \/ joinGroup_create(p)

\* DELETE /api/groups/:groupId/members/:memberId: group.findFirst (line 593)
removeMember_findFirst(p) ==
  /\ Serving(p, "removeMember", "start")
  /\ LET c == inFlight[p]
     IN IF ~(IsGroup(c.groupId) /\ group[c.groupId].createdBy = c.userId)
        THEN Answered(p, Fail(403, "NotAuthorized"))
        ELSE IF c.userId = c.target
        THEN Proceed(p, "count", <<>>)
        ELSE Proceed(p, "deleteMany", <<>>)
  /\ UNCHANGED <<storeVars, reply, flowVars, pairing>>

\* groupMember.count (line 606), asked when the admin removes itself
removeMember_count(p) ==
  /\ Serving(p, "removeMember", "count")
  /\ LET c == inFlight[p]
         memberCount == MemberCount(c.groupId)
     IN IF memberCount = 1
        THEN Answered(p, Fail(400, "OnlyMember"))
        ELSE Proceed(p, "deleteMany", <<>>)
  /\ UNCHANGED <<storeVars, reply, flowVars, pairing>>

\* groupMember.deleteMany (line 616): every row of the member in the group
\* goes
removeMember_deleteMany(p) ==
  /\ Serving(p, "removeMember", "deleteMany")
  /\ LET c == inFlight[p]
     IN /\ members' = IF <<c.groupId, c.target>> \in DOMAIN members
                      THEN [members EXCEPT ![<<c.groupId, c.target>>] = 0]
                      ELSE members
        /\ Answered(p, OK(200))
  /\ UNCHANGED <<group, expenses, settlements, reply, flowVars, pairing>>

removeMember(p) ==
  \/ removeMember_findFirst(p)
  \/ removeMember_count(p)
  \/ removeMember_deleteMany(p)

\* POST /api/groups/:id/regenerate-invite: group.findFirst by id and creator
\* (line 629), then generateInviteCode (line 640)
regenerateInviteCode_findFirst(p) ==
  /\ Serving(p, "regenerateInviteCode", "start")
  /\ LET c == inFlight[p]
     IN IF ~(IsGroup(c.groupId) /\ group[c.groupId].createdBy = c.userId)
        THEN Answered(p, Fail(403, "NotAuthorized"))
        ELSE \E newInviteCode \in GeneratedCodes :
               Proceed(p, "update", [inviteCode |-> newInviteCode])
  /\ UNCHANGED <<storeVars, reply, flowVars, pairing>>

\* group.update (line 642): the Group row gets the new code.  The update
\* fails when the row is gone, and on a code that another group holds.
regenerateInviteCode_update(p) ==
  /\ Serving(p, "regenerateInviteCode", "update")
  /\ LET c == inFlight[p]
     IN IF ~IsGroup(c.groupId)
        THEN /\ Answered(p, Fail(500, "RecordNotFound"))
             /\ UNCHANGED group
        ELSE IF GroupsWithCode(c.held.inviteCode) \ {c.groupId} # {}
        THEN /\ Answered(p, Fail(500, "UniqueConstraintViolation"))
             /\ UNCHANGED group
        ELSE /\ group' = [group EXCEPT ![c.groupId].inviteCode = c.held.inviteCode]
             /\ Answered(p, OK(200))
  /\ UNCHANGED <<members, expenses, settlements, reply, flowVars, pairing>>

regenerateInviteCode(p) ==
  regenerateInviteCode_findFirst(p) \/ regenerateInviteCode_update(p)

\* DELETE /api/groups/:id: group.findFirst (line 542)
deleteGroup_findFirst(p) ==
  /\ Serving(p, "deleteGroup", "start")
  /\ LET c == inFlight[p]
     IN IF ~(IsGroup(c.groupId) /\ group[c.groupId].createdBy = c.userId)
        THEN Answered(p, Fail(403, "NotAuthorized"))
        ELSE Proceed(p, "transaction", <<>>)
  /\ UNCHANGED <<storeVars, reply, flowVars, pairing>>

\* the rows of a table that are not of the group
RowsKept(rows, groupId) ==
  [id \in {x \in DOMAIN rows : rows[x].groupId # groupId} |-> rows[id]]

\* the $transaction of line 553: the rows of the group go with it, or nothing
\* goes when the group is gone already
deleteGroup_transaction(p) ==
  /\ Serving(p, "deleteGroup", "transaction")
  /\ LET c == inFlight[p]
     IN IF ~IsGroup(c.groupId)
        THEN /\ Answered(p, Fail(500, "RecordNotFound"))
             /\ UNCHANGED <<group, members, expenses, settlements>>
        ELSE /\ expenses' = RowsKept(expenses, c.groupId)
             /\ settlements' = RowsKept(settlements, c.groupId)
             /\ members' = [r \in DOMAIN members |->
                              IF r[1] = c.groupId THEN 0 ELSE members[r]]
             /\ group' = [g \in DOMAIN group \ {c.groupId} |-> group[g]]
             /\ Answered(p, OK(204))
  /\ UNCHANGED <<reply, flowVars, pairing>>

deleteGroup(p) == deleteGroup_findFirst(p) \/ deleteGroup_transaction(p)

\* the Settlement row written by createSettlement (lines 696-705)
NewSettlement(groupId, userId, paidToId, amount) ==
  [groupId |-> groupId, paidById |-> userId, paidToId |-> paidToId, amount |-> amount]

\* POST /api/settlements: the controller's checks, then one of the two
\* groupMember.findFirst queries of Promise.all (line 676) answered, the
\* payer's or the receiver's.  An amount left out of the body is 0.
createSettlement_findFirst(p) ==
  /\ Serving(p, "createSettlement", "start")
  /\ LET c == inFlight[p]
     IN IF c.target = "none" \/ c.body.amount = 0
        THEN Answered(p, Fail(400, "MissingFields"))
        ELSE IF c.body.amount < 0
        THEN Answered(p, Fail(400, "BadAmount"))
        ELSE IF c.userId = c.target
        THEN Answered(p, Fail(400, "SelfSettlement"))
        ELSE \E asked \in {c.userId, c.target} :
               Proceed(p, "findFirst", [asked |-> asked, found |-> IsMember(c.groupId, asked)])
  /\ UNCHANGED <<storeVars, reply, flowVars, pairing>>

\* the other query answered, and the check of line 691
createSettlement_findFirstOther(p) ==
  /\ Serving(p, "createSettlement", "findFirst")
  /\ LET c == inFlight[p]
         other == IF c.held.asked = c.userId THEN c.target ELSE c.userId
     IN IF ~(c.held.found /\ IsMember(c.groupId, other))
        THEN Answered(p, Fail(400, "NotMembers"))
        ELSE Proceed(p, "create", <<>>)
  /\ UNCHANGED <<storeVars, reply, flowVars, pairing>>

\* settlement.create (line 696); the row refers to its group
createSettlement_create(p) ==
  /\ Serving(p, "createSettlement", "create")
  /\ LET c == inFlight[p]
     IN IF ~IsGroup(c.groupId)
        THEN /\ Answered(p, Fail(500, "ForeignKeyViolation"))
             /\ UNCHANGED settlements
        ELSE /\ FreeIds(SettlementIds, settlements) # {}
             /\ settlements' = settlements @@
                                 (NewId(SettlementIds, settlements) :>
                                    NewSettlement(c.groupId, c.userId, c.target,
                                                  c.body.amount))
             /\ Answered(p, OK(201))
  /\ UNCHANGED <<group, members, expenses, reply, flowVars, pairing>>

createSettlement(p) ==
  \/ createSettlement_findFirst(p)
  \/ createSettlement_findFirstOther(p)
  \/ createSettlement_create(p)

\* DELETE /api/settlements/:id: settlement.findUnique with the caller's
\* membership (line 825)
deleteSettlement_findUnique(p) ==
  /\ Serving(p, "deleteSettlement", "start")
  /\ LET c == inFlight[p]
     IN IF c.id \notin DOMAIN settlements
        THEN Answered(p, Fail(404, "NotFound"))
        ELSE IF /\ settlements[c.id].paidById # c.userId
                /\ ~IsMember(settlements[c.id].groupId, c.userId)
        THEN Answered(p, Fail(403, "NotAuthorized"))
        ELSE Proceed(p, "delete", <<>>)
  /\ UNCHANGED <<storeVars, reply, flowVars, pairing>>

\* settlement.delete (line 849)
deleteSettlement_delete(p) ==
  /\ Serving(p, "deleteSettlement", "delete")
  /\ LET c == inFlight[p]
     IN IF c.id \notin DOMAIN settlements
        THEN /\ Answered(p, Fail(500, "RecordNotFound"))
             /\ UNCHANGED settlements
        ELSE /\ settlements' = [x \in DOMAIN settlements \ {c.id} |-> settlements[x]]
             /\ Answered(p, OK(204))
  /\ UNCHANGED <<group, members, expenses, reply, flowVars, pairing>>

deleteSettlement(p) == deleteSettlement_findUnique(p) \/ deleteSettlement_delete(p)

\* ------------------------------------------------------------ call inputs
RECURSIVE DistinctLists(_, _)
DistinctLists(S, n) ==
  IF n = 0 THEN {<<>>}
  ELSE {<<>>} \cup {<<u>> \o l : u \in S, l \in {k \in DistinctLists(S, n - 1) : TRUE}}

ParticipantLists ==
  {l \in DistinctLists(Users, MaxParts) :
     l # <<>> /\ \A i, j \in 1..Len(l) : i # j => l[i] # l[j]}

\* 0.03, whose half is half a cent, and 0.10
StoreAmounts == {3 * Cent, 10 * Cent}

\* what one participant of a splitBetween list supplies besides the user
EntryInputs == {[amount |-> 1 * Cent, percentage |-> 30 * Percent], [amount |-> 2 * Cent, percentage |-> 70 * Percent]}

\* EQUAL reads neither field of an entry, EXACT the amount, PERCENTAGE the percentage
SplitBetweenInputs(splitType) ==
  UNION {
    { [i \in 1..Len(l) |->
         [userId |-> l[i], amount |-> e[i].amount, percentage |-> e[i].percentage]] :
        e \in [1..Len(l) -> IF splitType \in {"EXACT", "PERCENTAGE"}
                            THEN EntryInputs
                            ELSE {[amount |-> 0, percentage |-> 0]}] }
    : l \in ParticipantLists }

\* the calls being served
Calls == {"p1", "p2"}

\* a request reaches the server on a call that is free; it has no answer yet
Arrive(p, request) ==
  /\ p \in DOMAIN inFlight
  /\ ~Hung
  /\ inFlight[p].at = "done"
  /\ inFlight' = [inFlight EXCEPT ![p] = request]
  /\ response' = OK(0)
  /\ UNCHANGED <<storeVars, reply, flowVars, pairing>>

\* the splitBetween list the clients of the store send, whatever the policy:
\* the two members, 0.01 and 0.02, 30% and 70%
StoreSplitBetween ==
  <<[userId |-> "u1", amount |-> 1 * Cent, percentage |-> 30 * Percent],
    [userId |-> "u2", amount |-> 2 * Cent, percentage |-> 70 * Percent]>>

\* the expenses named by the clients of the store
StoreIds == {"e1", "e2"}

CreateExpense ==
  \E userId \in Callers, amount \in StoreAmounts, splitType \in SplitType :
    /\ Cardinality(DOMAIN expenses) < MaxStored
    /\ Arrive("p1", Request("createExpense", userId, 1, "none", "none",
                            Body(TRUE, amount, splitType, TRUE, StoreSplitBetween)))
    /\ UNCHANGED callVars

\* a body with description or category alone, or with any of the other fields
UpdateExpense ==
  \E id \in StoreIds, userId \in Callers :
    /\ UNCHANGED callVars
    /\ \/ \E other \in BOOLEAN :
            Arrive("p1", Request("updateExpense", userId, 1, id, "none",
                                 Body(other, 0, "", FALSE, <<>>)))
       \/ \E amount \in StoreAmounts \cup {0}, splitType \in SplitType \cup {""},
             hasSplitBetween \in BOOLEAN :
            Arrive("p1", Request("updateExpense", userId, 1, id, "none",
                                 Body(FALSE, amount, splitType, hasSplitBetween,
                                      IF hasSplitBetween THEN StoreSplitBetween ELSE <<>>)))

DeleteExpense ==
  \E id \in StoreIds, userId \in Callers :
    /\ Arrive("p1", Request("deleteExpense", userId, 1, id, "none", NoBody))
    /\ UNCHANGED callVars

\* the handler of the request goes on by one await
ServeExpense ==
  /\ createExpense("p1") \/ updateExpense("p1") \/ deleteExpense("p1")
  /\ UNCHANGED callVars

\* a group of two members; u3 has an account and is not in the group
Init ==
  /\ members = MembersOf(1, {"u1", "u2"})
  /\ group = OneGroup
  /\ expenses = <<>>
  /\ response = OK(0)
  /\ balances = <<>>
  /\ nonZeroBalances = <<>>
  /\ transactions = <<>>
  /\ pc = "idle"
  /\ workingSize = 0
  /\ call = NoCall
  /\ stage = "none"
  /\ result = NoResult
  /\ settlements = <<>>
  /\ reply = NoReply
  /\ pairing = NoPairing
  /\ inFlight = ("p1" :> NoRequest)

Next == CreateExpense \/ UpdateExpense \/ DeleteExpense \/ ServeExpense

Spec == Init /\ [][Next]_vars

\* ------------------------------------------------- one call, on its own
\* calculateSplits, createExpense or updateExpense applied once to arguments
\* kept in call, so that the outcome can be set against the arguments
TheCall(op, userId, other, amount, splitType, hasSplitBetween, splitBetween) ==
  [op |-> op, userId |-> userId, other |-> other, amount |-> amount,
   splitType |-> splitType, hasSplitBetween |-> hasSplitBetween,
   splitBetween |-> splitBetween, before |-> expenses]

\* the request of the call, as it reaches the handler
RequestOf(c) ==
  IF c.op \in {"createExpense", "updateExpense"}
  THEN Request(c.op, c.userId, 1, IF c.op = "updateExpense" THEN "e1" ELSE "none", "none",
               Body(c.other, c.amount, c.splitType, c.hasSplitBetween, c.splitBetween))
  ELSE NoRequest

\* the first n users of MapUsers, each supplying e[i]
SplitBetweenOf(n, e) ==
  [i \in 1..n |-> [userId |-> MapUsers[i], amount |-> e[i].amount, percentage |-> e[i].percentage]]

CallEntryInputs ==
  EntryInputs \cup {[amount |-> 2 * Cent + 1, percentage |-> 40 * Percent],
                    [amount |-> 3 * Cent, percentage |-> 100 * Percent],
                    [amount |-> 5 * Cent, percentage |-> 50 * Percent]}

\* percentages of one decimal place: 0.1, 64.1 and 35.8 are 100 together and
\* 99.99999999999999 as doubles added in this order, 33.3, 33.3 and 33.4 are
\* 100 either way
FractionInputs ==
  {[amount |-> 0, percentage |-> p] : p \in {100, 64100, 35800, 33300, 33400}}

\* percentages of two and three decimal places: 6.25% of 0.08 is half a cent
\* with no whole number of halves of a percent, and so is 93.75% of it above
\* 0.07
TieInputs ==
  {[amount |-> 0, percentage |-> p] : p \in {400, 6250, 93750, 99600}}

\* amounts of whole cents, and the same one unit above
CallAmounts == {a \in 1..(MaxCents * Cent) : a % Cent \in {0, 1}}

\* a store createExpense can have left: empty, or one EQUAL expense of u1
StoresBefore ==
  {<<>>,
   "e1" :> NewExpense(1, "u1", 10 * Cent, "EQUAL",
                      SplitsEqual(10 * Cent, <<[userId |-> "u1"], [userId |-> "u2"]>>))}

\* the call is over once its request is answered
StageAfter(p, before, after) == IF inFlight'[p].at = "done" THEN after ELSE before

ApplyCalculateSplits ==
  /\ stage = "pending"
  /\ call.op = "calculateSplits"
  /\ result' = calculateSplits(call.amount, call.splitType, call.splitBetween)
  /\ stage' = "done"
  /\ UNCHANGED <<call, storeVars, flowVars, serverVars, pairing>>

ApplyCreateExpense ==
  /\ stage = "pending"
  /\ call.op = "createExpense"
  /\ createExpense("p1")
  /\ stage' = StageAfter("p1", "pending", "done")
  /\ UNCHANGED <<call, result>>

ApplyUpdateExpense ==
  /\ stage = "pending"
  /\ call.op = "updateExpense"
  /\ updateExpense("p1")
  /\ stage' = StageAfter("p1", "pending", "done")
  /\ UNCHANGED <<call, result>>

InitCall ==
  /\ members = MembersOf(1, {"u1", "u2"})
  /\ group = OneGroup
  /\ expenses \in StoresBefore
  /\ response = OK(0)
  /\ balances = <<>>
  /\ nonZeroBalances = <<>>
  /\ transactions = <<>>
  /\ pc = "idle"
  /\ workingSize = 0
  /\ stage = "pending"
  /\ result = NoResult
  /\ settlements = <<>>
  /\ reply = NoReply
  /\ pairing = NoPairing
  /\ \/ /\ expenses = <<>>
        /\ \E amount \in 1..(MaxCents * Cent) :
             \/ \E n \in 1..MaxN :
                  call = TheCall("calculateSplits", "u1", FALSE, amount, "EQUAL", TRUE,
                                 SplitBetweenOf(n, [i \in 1..n |-> [amount |-> 0, percentage |-> 0]]))
             \/ \E splitType \in {"EXACT", "PERCENTAGE", "WEIGHTED"}, n \in 1..MaxParts :
                  \E e \in [1..n -> CallEntryInputs] :
                    call = TheCall("calculateSplits", "u1", FALSE, amount, splitType, TRUE,
                                   SplitBetweenOf(n, e))
             \/ \E e \in [1..3 -> FractionInputs] :
                  call = TheCall("calculateSplits", "u1", FALSE, amount, "PERCENTAGE", TRUE,
                                 SplitBetweenOf(3, e))
             \/ \E e \in [1..2 -> TieInputs] :
                  call = TheCall("calculateSplits", "u1", FALSE, amount, "PERCENTAGE", TRUE,
                                 SplitBetweenOf(2, e))
     \/ \E userId \in Callers, amount \in CallAmounts \cup {0, -Cent},
           splitType \in SplitType \cup {"WEIGHTED", ""} :
          \/ \E splitBetween \in SplitBetweenInputs(splitType) \cup {<<>>} :
               call = TheCall("createExpense", userId, TRUE, amount, splitType, TRUE, splitBetween)
          \/ call = TheCall("createExpense", userId, FALSE, amount, splitType, FALSE, <<>>)
     \/ \E userId \in Callers, amount \in CallAmounts \cup {0, -Cent},
           splitType \in SplitType \cup {""} :
          \/ \E other \in BOOLEAN :
               call = TheCall("updateExpense", userId, other, amount, splitType, FALSE, <<>>)
          \/ \E splitBetween \in SplitBetweenInputs(splitType) \cup {<<>>} :
               call = TheCall("updateExpense", userId, FALSE, amount, splitType, TRUE, splitBetween)
  /\ inFlight = ("p1" :> RequestOf(call))

NextCall == ApplyCalculateSplits \/ ApplyCreateExpense \/ ApplyUpdateExpense

SpecCall == InitCall /\ [][NextCall]_vars

\* the Map of the first n users of MapUsers with the whole-cent balances f
BalanceInput(n, f) == [i \in 1..n |-> [userId |-> MapUsers[i], amount |-> Double(f[i] * Cent)]]

InitFlow ==
  /\ members = NoMembers
  /\ group = NoGroups
  /\ expenses = <<>>
  /\ response = OK(0)
  /\ \E n \in 0..Len(MapUsers) : \E f \in [1..n -> (-MaxBal)..MaxBal] :
       balances = BalanceInput(n, f)
  /\ nonZeroBalances = <<>>
  /\ transactions = <<>>
  /\ pc = "idle"
  /\ workingSize = 0
  /\ call = NoCall
  /\ stage = "none"
  /\ result = NoResult
  /\ settlements = <<>>
  /\ reply = NoReply
  /\ pairing = NoPairing
  /\ inFlight = <<>>

NextFlow == FlowStart \/ FlowStep \/ FlowReturn

SpecFlow == InitFlow /\ [][NextFlow]_vars

\* ------------------------------------------- calculateBalances, on its own
\* the rows of one expense: payer, amount and one split or more (users may
\* repeat)
SplitRows == {[userId |-> "a", amount |-> 1 * Cent],
              [userId |-> "a", amount |-> 2 * Cent],
              [userId |-> "b", amount |-> 2 * Cent],
              [userId |-> "b", amount |-> 3 * Cent]}

BalanceAmounts == {3 * Cent, 4 * Cent}

ExpenseRow(paidById, amount, n, f) ==
  [paidById |-> paidById, amount |-> amount, splitType |-> "EXACT",
   splits |-> [i \in 1..n |-> [userId |-> f[i].userId, amount |-> f[i].amount,
                               percentage |-> NoPct]]]

ExpenseRows ==
  UNION {{ExpenseRow(paidById, amount, n, f) :
            f \in [1..n -> SplitRows], paidById \in {"a", "c"}, amount \in BalanceAmounts}
         : n \in 1..MaxParts}

ApplyCalculateBalances ==
  /\ stage = "pending"
  /\ call.op = "calculateBalances"
  /\ balances' = calculateBalances(call.expenses)
  /\ stage' = "done"
  /\ UNCHANGED <<call, result, storeVars, nonZeroBalances, transactions, pc,
                 workingSize, serverVars, pairing>>

InitBalances ==
  /\ members = NoMembers
  /\ group = NoGroups
  /\ expenses = <<>>
  /\ response = OK(0)
  /\ balances = <<>>
  /\ nonZeroBalances = <<>>
  /\ transactions = <<>>
  /\ pc = "idle"
  /\ workingSize = 0
  /\ stage = "pending"
  /\ result = NoResult
  /\ settlements = <<>>
  /\ reply = NoReply
  /\ pairing = NoPairing
  /\ inFlight = <<>>
  /\ \E n \in 0..MaxExpenses : \E l \in [1..n -> ExpenseRows] :
       call = [op |-> "calculateBalances", expenses |-> l]

NextBalances == ApplyCalculateBalances

SpecBalances == InitBalances /\ [][NextBalances]_vars

\* ------------------------------- one balance or suggestion request, alone
\* amounts of the expenses in store: 0.02, 0.03, and one just above a cent
\* and a half
ReadAmounts == {2 * Cent, 3 * Cent, Cent + 6}

\* the splitBetween lists over the members of the group
MemberLists ==
  {[i \in 1..Len(l) |-> [userId |-> l[i], amount |-> 0, percentage |-> 0]] :
     l \in {k \in ParticipantLists : \A i \in 1..Len(k) : k[i] \in {"u1", "u2"}}}

\* the expenses createExpense writes for an EQUAL split among members, and the
\* same after an updateExpense that carried an amount alone
ReadExpenses ==
  {NewExpense(1, paidById, later, "EQUAL", calculateSplits(amount, "EQUAL", sb).splits) :
     paidById \in {"u1", "u2"}, amount \in ReadAmounts, later \in ReadAmounts,
     sb \in MemberLists}

\* a settlement createSettlement writes between the two members
ReadSettlements ==
  {<<>>, "s1" :> [paidById |-> "u2", paidToId |-> "u1", amount |-> 2 * Cent]}

\* a request that names the group and nothing else
ReadRequest(op, userId) == Request(op, userId, 1, "none", "none", NoBody)

ApplyGetGroupBalances ==
  /\ stage = "pending"
  /\ call.op = "getGroupBalances"
  /\ getGroupBalances("p1")
  /\ stage' = StageAfter("p1", "pending", "done")
  /\ UNCHANGED <<call, result>>

ApplyGetSettlementSuggestions ==
  /\ stage = "pending"
  /\ call.op = "getSettlementSuggestions"
  /\ getSettlementSuggestions("p1")
  /\ stage' = StageAfter("p1", "pending", "done")
  /\ UNCHANGED <<call, result>>

InitRead ==
  /\ members = MembersOf(1, {"u1", "u2"})
  /\ group = OneGroup
  /\ \/ expenses = <<>>
     \/ \E x \in ReadExpenses : expenses = ("e1" :> x)
     \/ \E x \in ReadExpenses, y \in ReadExpenses : expenses = ("e1" :> x) @@ ("e2" :> y)
  /\ settlements \in ReadSettlements
  /\ response = OK(0)
  /\ balances = <<>>
  /\ nonZeroBalances = <<>>
  /\ transactions = <<>>
  /\ pc = "idle"
  /\ workingSize = 0
  /\ stage = "pending"
  /\ result = NoResult
  /\ reply = NoReply
  /\ pairing = NoPairing
  /\ \E op \in {"getGroupBalances", "getSettlementSuggestions"}, userId \in Callers :
       /\ call = [op |-> op, userId |-> userId, before |-> expenses]
       /\ inFlight = ("p1" :> ReadRequest(op, userId))

NextRead == ApplyGetGroupBalances \/ ApplyGetSettlementSuggestions

SpecRead == InitRead /\ [][NextRead]_vars

\* -------------------------------- the two pairing algorithms on one Map
\* lines 208-249 of getSettlementSuggestions on the Map minimizeCashFlow got
SuggestForBalances ==
  /\ pc = "done"
  /\ reply = NoReply
  /\ reply' = SuggestionsReply("none", <<>>, Suggestions(balances))
  /\ UNCHANGED <<storeVars, flowVars, callVars, response, inFlight, pairing>>

\* zero-sum Maps of five users
InitPair ==
  /\ members = NoMembers
  /\ group = NoGroups
  /\ expenses = <<>>
  /\ response = OK(0)
  /\ \E f \in [1..5 -> (-MaxPair)..MaxPair] :
       /\ f[1] + f[2] + f[3] + f[4] + f[5] = 0
       /\ balances = BalanceInput(5, f)
  /\ nonZeroBalances = <<>>
  /\ transactions = <<>>
  /\ pc = "idle"
  /\ workingSize = 0
  /\ call = NoCall
  /\ stage = "none"
  /\ result = NoResult
  /\ settlements = <<>>
  /\ reply = NoReply
  /\ pairing = NoPairing
  /\ inFlight = <<>>

NextPair == FlowStart \/ FlowStep \/ FlowReturn \/ SuggestForBalances

SpecPair == InitPair /\ [][NextPair]_vars

\* ------------------- one expense through splits, balances and transfers
PipelineUsers == {"a", "b", "c"}

\* the participants: every list of distinct users, in every order
PipelineLists ==
  {l \in DistinctLists(PipelineUsers, Cardinality(PipelineUsers)) :
     l # <<>> /\ \A i, j \in 1..Len(l) : i # j => l[i] # l[j]}

PipelineEntries ==
  {[amount |-> 1 * Cent, percentage |-> 20 * Percent], [amount |-> 2 * Cent, percentage |-> 30 * Percent],
   [amount |-> 3 * Cent, percentage |-> 50 * Percent], [amount |-> 4 * Cent, percentage |-> 100 * Percent]}

PipelineSplitBetween(l, e) ==
  [i \in 1..Len(l) |-> [userId |-> l[i], amount |-> e[i].amount, percentage |-> e[i].percentage]]

\* minimizeCashFlow has run on the Map m
PipelineFlow(m, run) ==
  /\ balances' = m
  /\ transactions' = run.transactions
  /\ pc' = IF run.returned THEN "done" ELSE "loop"

\* calculateBalances has run on the group's only expense
PipelineBalances(m) == PipelineFlow(m, minimizeCashFlow(m))

\* calculateSplits has returned or thrown r
PipelineSplit(r) ==
  /\ result' = r
  /\ IF r.ok
     THEN PipelineBalances(calculateBalances(
            <<NewExpense(1, call.userId, call.amount, call.splitType, r.splits)>>))
     ELSE UNCHANGED <<balances, transactions, pc>>

\* calculateSplits for the expense, calculateBalances over the group's only
\* expense, minimizeCashFlow on the Map
ApplyPipeline ==
  /\ stage = "pending"
  /\ call.op = "pipeline"
  /\ stage' = "done"
  /\ PipelineSplit(calculateSplits(call.amount, call.splitType, call.splitBetween))
  /\ UNCHANGED <<call, storeVars, nonZeroBalances, workingSize, serverVars, pairing>>

InitPipeline ==
  /\ members = NoMembers
  /\ group = NoGroups
  /\ expenses = <<>>
  /\ response = OK(0)
  /\ balances = <<>>
  /\ nonZeroBalances = <<>>
  /\ transactions = <<>>
  /\ pc = "idle"
  /\ workingSize = 0
  /\ stage = "pending"
  /\ result = NoResult
  /\ settlements = <<>>
  /\ reply = NoReply
  /\ pairing = NoPairing
  /\ inFlight = <<>>
  /\ \E paidById \in {"a", "d"}, l \in PipelineLists :
       \/ \E amount \in {3 * Cent, 6 * Cent, 9 * Cent, 10 * Cent} :
            call = TheCall("pipeline", paidById, FALSE, amount, "EQUAL", TRUE,
                           PipelineSplitBetween(l, [i \in 1..Len(l) |->
                                                      [amount |-> 0, percentage |-> 0]]))
       \/ \E e \in [1..Len(l) -> PipelineEntries] :
            \/ call = TheCall("pipeline", paidById, FALSE,
                              SumSeq([i \in 1..Len(l) |-> e[i].amount]), "EXACT", TRUE,
                              PipelineSplitBetween(l, e))
            \/ \E amount \in {5 * Cent, 10 * Cent} :
                 call = TheCall("pipeline", paidById, FALSE, amount, "PERCENTAGE", TRUE,
                                PipelineSplitBetween(l, e))

NextPipeline == ApplyPipeline

SpecPipeline == InitPipeline /\ [][NextPipeline]_vars

\* ------------------------------------- group and settlement requests
\* the codes a client sends: none, those of the groups, one no group has
InviteCodes == {"none", "ZZZZZZ"} \cup GeneratedCodes

SettlementAmounts == {0, -Cent, 5 * Cent}

\* u1 and u2 make groups; a body with a name, or without
CreateGroup ==
  \E userId \in {"u1", "u2"}, hasName \in BOOLEAN :
    /\ hasName \/ userId = "u1"
    /\ Arrive("p1", Request("createGroup", userId, 0, "none", "none",
                            [NoBody EXCEPT !.other = hasName]))
    /\ UNCHANGED callVars

\* any user sends a code generateInviteCode can come up with, u1 the others
JoinGroup ==
  \E userId \in Users, inviteCode \in InviteCodes :
    /\ inviteCode \in GeneratedCodes \/ userId = "u1"
    /\ Arrive("p1", Request("joinGroup", userId, 0, "none", inviteCode, NoBody))
    /\ UNCHANGED callVars

RemoveMember ==
  \E adminId \in Users, memberId \in Users, groupId \in GroupIds :
    /\ Arrive("p1", Request("removeMember", adminId, groupId, "none", memberId, NoBody))
    /\ UNCHANGED callVars

DeleteGroup ==
  \E userId \in Users, groupId \in GroupIds :
    /\ Arrive("p1", Request("deleteGroup", userId, groupId, "none", "none", NoBody))
    /\ UNCHANGED callVars

\* u1 and u2 for any group; u3, who makes no group, for group 1
RegenerateInviteCode ==
  \E userId \in Users, groupId \in GroupIds :
    /\ userId # "u3" \/ groupId = 1
    /\ Arrive("p1", Request("regenerateInviteCode", userId, groupId, "none", "none", NoBody))
    /\ UNCHANGED callVars

\* the body of POST /api/settlements
SettlementRequest(userId, groupId, paidToId, amount) ==
  Request("createSettlement", userId, groupId, "none", paidToId,
          [NoBody EXCEPT !.amount = amount])

\* 0.05 from any user to any user in any group; no amount, or a negative
\* one, from u1 to u2
CreateSettlement ==
  \E userId \in Users, paidToId \in Users, amount \in SettlementAmounts, groupId \in GroupIds :
    /\ amount > 0 \/ (userId = "u1" /\ paidToId = "u2" /\ groupId = 1)
    /\ Cardinality(DOMAIN settlements) < MaxSettled
    /\ Arrive("p1", SettlementRequest(userId, groupId, paidToId, amount))
    /\ UNCHANGED callVars

\* s1 by any user, and s2, which is never stored, by u1
DeleteSettlement ==
  \E settlementId \in {"s1", "s2"}, userId \in Users :
    /\ settlementId = "s1" \/ userId = "u1"
    /\ Arrive("p1", Request("deleteSettlement", userId, 0, settlementId, "none", NoBody))
    /\ UNCHANGED callVars

\* the handler of the request goes on by one await
ServeGroup ==
  /\ \/ createGroup("p1")
     \/ joinGroup("p1")
     \/ removeMember("p1")
     \/ deleteGroup("p1")
     \/ regenerateInviteCode("p1")
     \/ createSettlement("p1")
     \/ deleteSettlement("p1")
  /\ UNCHANGED callVars

\* no group yet; u1, u2 and u3 have accounts
InitGroup ==
  /\ members = NoMembers
  /\ group = NoGroups
  /\ expenses = <<>>
  /\ response = OK(0)
  /\ balances = <<>>
  /\ nonZeroBalances = <<>>
  /\ transactions = <<>>
  /\ pc = "idle"
  /\ workingSize = 0
  /\ call = NoCall
  /\ stage = "none"
  /\ result = NoResult
  /\ settlements = <<>>
  /\ reply = NoReply
  /\ pairing = NoPairing
  /\ inFlight = ("p1" :> NoRequest)

NextGroup ==
  \/ CreateGroup
  \/ JoinGroup
  \/ RemoveMember
  \/ DeleteGroup
  \/ RegenerateInviteCode
  \/ CreateSettlement
  \/ DeleteSettlement
  \/ ServeGroup

SpecGroup == InitGroup /\ [][NextGroup]_vars

\* ------------------------- a request, settlements, the same request again
\* the expenses in store when the first request is made
\* an expense of u1 shared with u2: EQUAL, or 0.04 of which 0.01 is u1's own
SharedByU1 ==
  {y \in ReadExpenses : y.paidById = "u1" /\ Len(y.splits) = 2 /\ y.splits[1].userId = "u1"}
    \cup {NewExpense(1, "u1", 4 * Cent, "EXACT",
                     calculateSplits(4 * Cent, "EXACT",
                                     <<[userId |-> "u1", amount |-> 1 * Cent, percentage |-> 0],
                                       [userId |-> "u2", amount |-> 3 * Cent, percentage |-> 0]>>).splits)}

\* an expense of u2 that is all u1's
OwedByU1 ==
  {y \in ReadExpenses : y.paidById = "u2" /\ y.amount = SumSeq(Amounts(y.splits))
                          /\ Len(y.splits) = 1 /\ y.splits[1].userId = "u1"}

SettleStores ==
  {<<>>} \cup {"e1" :> x : x \in SharedByU1}
        \cup {("e1" :> x) @@ ("e2" :> y) : x \in SharedByU1, y \in OwedByU1}

\* the request named by call goes on by one await
Answer ==
  \/ getGroupBalances("p1")
  \/ getUserBalances("p1")
  \/ getSettlementSuggestions("p1")

AskFirst ==
  /\ stage = "first"
  /\ Answer
  /\ stage' = StageAfter("p1", "first", "settling")
  /\ UNCHANGED <<call, result>>

\* a payment between any two users, or for the whole of a transfer the first
\* answer suggested, is sent on the second call
RecordSettlement ==
  /\ stage = "settling"
  /\ Cardinality(DOMAIN settlements) < MaxSettled
  /\ \/ \E userId \in Users, paidToId \in Users, amount \in SettlementAmounts :
          Arrive("p2", SettlementRequest(userId, 1, paidToId, amount))
     \/ \E k \in 1..Len(reply.transactions) :
          Arrive("p2", SettlementRequest(reply.transactions[k].from, 1,
                                         reply.transactions[k].to,
                                         reply.transactions[k].amount))
  /\ UNCHANGED callVars

RevokeSettlement ==
  /\ stage = "settling"
  /\ \E settlementId \in DOMAIN settlements, userId \in Users :
       Arrive("p2", Request("deleteSettlement", userId, 0, settlementId, "none", NoBody))
  /\ UNCHANGED callVars

\* the settlement request goes on by one await, the second time round between
\* the awaits of the request asked again
Settle ==
  /\ stage \in {"settling", "again"}
  /\ createSettlement("p2") \/ deleteSettlement("p2")
  /\ UNCHANGED callVars

AskAgain ==
  /\ stage = "settling"
  /\ call' = [call EXCEPT !.first = reply]
  /\ Arrive("p1", ReadRequest(call.op, call.userId))
  /\ stage' = "again"
  /\ UNCHANGED result

AnswerAgain ==
  /\ stage = "again"
  /\ Answer
  /\ stage' = StageAfter("p1", "again", "done")
  /\ UNCHANGED <<call, result>>

InitSettle ==
  /\ members = MembersOf(1, {"u1", "u2"})
  /\ group = OneGroup
  /\ expenses \in SettleStores
  /\ settlements = <<>>
  /\ response = OK(0)
  /\ balances = <<>>
  /\ nonZeroBalances = <<>>
  /\ transactions = <<>>
  /\ pc = "idle"
  /\ workingSize = 0
  /\ stage = "first"
  /\ result = NoResult
  /\ reply = NoReply
  /\ pairing = NoPairing
  /\ \E op \in {"getGroupBalances", "getUserBalances", "getSettlementSuggestions"},
        userId \in Callers :
       /\ call = [op |-> op, userId |-> userId, first |-> NoReply]
       /\ inFlight = ("p1" :> ReadRequest(op, userId)) @@ ("p2" :> NoRequest)

NextSettle ==
  AskFirst \/ RecordSettlement \/ RevokeSettlement \/ Settle \/ AskAgain \/ AnswerAgain

SpecSettle == InitSettle /\ [][NextSettle]_vars

\* --------------------------------- the pairing loop, iteration by iteration
\* lines 208-223 of getSettlementSuggestions on the Map of balances: the list,
\* its two sorted halves, both indices at the first entry
PairStart ==
  /\ pairing.pc = "idle"
  /\ pairing' = PairEntry(suggestionBalanceList(balances))
  /\ UNCHANGED <<storeVars, flowVars, callVars, serverVars>>

\* one iteration that leaves the debtor's amount as it was
PairStepNoDebit ==
  /\ pairing.pc = "loop"
  /\ pairing.i <= Len(pairing.positiveBalances)
  /\ pairing.j <= Len(pairing.negativeBalances)
  /\ Len(pairing.suggestions) < MaxIter
  /\ LET pos == pairing.positiveBalances
         neg == pairing.negativeBalances
         i == pairing.i
         j == pairing.j
         amount == pairAmount(pos, neg, i, j)
         pos2 == [pos EXCEPT ![i].amount = Sub(@, amount)]
     IN pairing' = Pairing("loop", pos2, neg,
                           IF BelowCent(pos2[i].amount) THEN i + 1 ELSE i,
                           IF BelowCent(neg[j].amount) THEN j + 1 ELSE j,
                           Append(pairing.suggestions, Suggestion(pos, neg, i, j)))
  /\ UNCHANGED <<storeVars, flowVars, callVars, serverVars>>

\* one iteration of the while loop, lines 225-242 (the loop has no cap of its
\* own; the model follows MaxIter iterations)
PairStep ==
  /\ pairing.pc = "loop"
  /\ pairing.i <= Len(pairing.positiveBalances)
  /\ pairing.j <= Len(pairing.negativeBalances)
  /\ Len(pairing.suggestions) < MaxIter
  /\ pairing' = PairIteration(pairing.positiveBalances, pairing.negativeBalances,
                              pairing.i, pairing.j, pairing.suggestions)
  /\ UNCHANGED <<storeVars, flowVars, callVars, serverVars>>

\* the while condition fails: the suggestions are sent
PairReturn ==
  /\ pairing.pc = "loop"
  /\ ~(pairing.i <= Len(pairing.positiveBalances) /\ pairing.j <= Len(pairing.negativeBalances))
  /\ pairing' = [pairing EXCEPT !.pc = "done"]
  /\ UNCHANGED <<storeVars, flowVars, callVars, serverVars>>

\* every Map of up to five users, zero-sum or not
InitPairing ==
  /\ members = NoMembers
  /\ group = NoGroups
  /\ expenses = <<>>
  /\ response = OK(0)
  /\ \E n \in 0..(Len(MapUsers) - 1) : \E f \in [1..n -> (-MaxOwed)..MaxOwed] :
       balances = BalanceInput(n, f)
  /\ nonZeroBalances = <<>>
  /\ transactions = <<>>
  /\ pc = "idle"
  /\ workingSize = 0
  /\ call = NoCall
  /\ stage = "none"
  /\ result = NoResult
  /\ settlements = <<>>
  /\ reply = NoReply
  /\ pairing = NoPairing
  /\ inFlight = <<>>

NextPairing == PairStart \/ PairStep \/ PairReturn

SpecPairing == InitPairing /\ [][NextPairing]_vars

\* ------------------------------------------ requests running side by side
\* Two requests on the group of u1 and u2 and its expense e1, each going from
\* await to await while the other does the same, the two statements of
\* updateExpense's $transaction included.

\* the body of an updateExpense that replaces the splits: EQUAL among members,
\* with an amount or without
UpdateBodies ==
  {Request("updateExpense", userId, 1, "e1", "none",
           Body(FALSE, amount, "EQUAL", TRUE, splitBetween)) :
     userId \in Callers, amount \in StoreAmounts \cup {0}, splitBetween \in MemberLists}

\* the requests that meet: the updates, an expense of u2 shared with u1, the
\* expense deleted, u2 removed from the group, u3 joining it
SideBySide ==
  UpdateBodies \cup
  {Request("createExpense", "u2", 1, "none", "none",
           Body(TRUE, 3 * Cent, "EQUAL", TRUE,
                <<[userId |-> "u1", amount |-> 0, percentage |-> 0],
                  [userId |-> "u2", amount |-> 0, percentage |-> 0]>>)),
   Request("deleteExpense", "u1", 1, "e1", "none", NoBody),
   Request("removeMember", "u1", 1, "none", "u2", NoBody),
   Request("joinGroup", "u3", 0, "none", "A1B2C3", NoBody)}

\* one of the two handlers goes on by one await
ServeSideBySide ==
  /\ \E p \in Calls :
       \/ updateExpense(p)
       \/ createExpense(p)
       \/ deleteExpense(p)
       \/ removeMember_findFirst(p)
       \/ removeMember_deleteMany(p)
       \/ joinGroup(p)
  /\ UNCHANGED callVars

\* e1 as createExpense stored it, and two requests about to be served
InitUpdates ==
  /\ members = MembersOf(1, {"u1", "u2"})
  /\ group = OneGroup
  /\ expenses \in StoresBefore \ {<<>>}
  /\ response = OK(0)
  /\ balances = <<>>
  /\ nonZeroBalances = <<>>
  /\ transactions = <<>>
  /\ pc = "idle"
  /\ workingSize = 0
  /\ call = NoCall
  /\ stage = "none"
  /\ result = NoResult
  /\ settlements = <<>>
  /\ reply = NoReply
  /\ pairing = NoPairing
  /\ inFlight \in [Calls -> SideBySide]

\* once both are answered, u1 asks for an expense shared by u2 and u3, who
\* may have left, joined, or joined twice
ShareAfterwards ==
  /\ \A p \in Calls : inFlight[p].at = "done"
  /\ Cardinality(DOMAIN expenses) <= MaxStored
  /\ Arrive("p1", Request("createExpense", "u1", 1, "none", "none",
                          Body(TRUE, 4 * Cent, "EQUAL", TRUE,
                               <<[userId |-> "u2", amount |-> 0, percentage |-> 0],
                                 [userId |-> "u3", amount |-> 0, percentage |-> 0]>>)))
  /\ UNCHANGED callVars

NextUpdates == ServeSideBySide \/ ShareAfterwards

SpecUpdates == InitUpdates /\ [][NextUpdates]_vars

\* ================================================================== claims
\* C1: every stored Expense has split amounts that sum to its amount exactly.
C1_SplitsSumToAmount ==
  \A id \in DOMAIN expenses :
    SumSeq(Amounts(expenses[id].splits)) = expenses[id].amount

\* the numbers of a Map add up to nothing, as the real numbers they are
SumsToZero(m) ==
  /\ SumSeq([i \in 1..Len(m) |-> m[i].amount.u]) = 0
  /\ SumSeq([i \in 1..Len(m) |-> m[i].amount.r]) = 0

\* C2: the net balances calculateBalances computes over the group's expenses
\* sum to exactly zero.
C2_BalancesSumToZero ==
  \A rows \in GroupExpenses(1) : SumsToZero(calculateBalances(rows))

\* ---- minimizeCashFlow
ZeroSum == SumsToZero(balances)

TransferAmounts(sel(_)) ==
  SumSeq([k \in 1..Len(transactions) |->
            IF sel(transactions[k]) THEN transactions[k].amount ELSE 0])

Received(u) == TransferAmounts(LAMBDA t : t.to = u)

Sent(u) == TransferAmounts(LAMBDA t : t.from = u)

NonZeroCount == Cardinality({i \in 1..Len(balances) : balances[i].amount # Zero})

\* C3: on a zero-sum Map the returned transfers settle every balance exactly:
\* a creditor receives its balance and sends nothing, a debtor sends the
\* absolute value of its balance and receives nothing.
C3_TransfersSettle ==
  (pc = "done" /\ ZeroSum) =>
    \A i \in 1..Len(balances) :
      LET u == balances[i].userId
          b == balances[i].amount
      IN /\ Less(Zero, b) => (Double(Received(u)) = b /\ Sent(u) = 0)
         /\ Less(b, Zero) => (Double(Sent(u)) = Neg(b) /\ Received(u) = 0)

\* C4: on a zero-sum Map every transfer pushed has a positive amount and a
\* sender other than its receiver, at every iteration.
C4_NoSelfTransfer ==
  ZeroSum =>
    \A k \in 1..Len(transactions) :
      transactions[k].amount > 0 /\ transactions[k].from # transactions[k].to

\* C5: on every Map the loop ends within N iterations, N the number of
\* entries of the initial working set.
C5_IterationsBounded ==
  pc # "idle" => Len(transactions) <= workingSize

\* C6: the call never returns its transfer list as a normal result when the
\* loop ends with one entry that is not within 0.01 of zero.
C6_ResidualReported ==
  ~(/\ pc = "done"
    /\ Len(nonZeroBalances) = 1
    /\ ~BelowCent(nonZeroBalances[1].amount))

\* C7: on a zero-sum Map with N non-zero balances at most N-1 transfers are
\* returned, and every iteration removes at least one entry of the working set.
C7_AtMostNMinusOne ==
  (ZeroSum /\ pc # "idle") =>
    /\ Len(transactions) <= (IF NonZeroCount > 0 THEN NonZeroCount - 1 ELSE 0)
    /\ Len(transactions) + Len(nonZeroBalances) <= workingSize

\* ---- calculateSplits and the calls that use it
EqualCall ==
  /\ stage = "done"
  /\ call.op = "calculateSplits"
  /\ call.splitType = "EQUAL"
  /\ Len(call.splitBetween) >= 1

\* C9 as stated: an EQUAL split of any positive amount A over N >= 1
\* participants returns N shares that sum to A exactly, each of them, the
\* last included, within 0.01 of A/N.
C9_EqualWithinCent ==
  EqualCall =>
    LET n == Len(call.splitBetween)
        shares == Amounts(result.splits)
    IN /\ result.ok
       /\ Len(shares) = n
       /\ SumSeq(shares) = call.amount
       /\ \A i \in 1..n : Abs(n * shares[i] - call.amount) <= n * Cent

\* C9 as amended: for A a whole number of cents the N shares sum to A
\* exactly, each of the first N-1 is within 0.005 of A/N and the last within
\* (N-1) x 0.005 of A/N.
C9_EqualShares ==
  (EqualCall /\ call.amount % Cent = 0) =>
    LET n == Len(call.splitBetween)
        shares == Amounts(result.splits)
    IN /\ result.ok
       /\ Len(shares) = n
       /\ SumSeq(shares) = call.amount
       /\ \A i \in 1..(n - 1) : 2 * Abs(n * shares[i] - call.amount) <= n * Cent
       /\ 2 * Abs(n * shares[n] - call.amount) <= (n - 1) * n * Cent

C9_Witness ==
  /\ EqualCall
  /\ call.amount % Cent = 0
  /\ LET n == Len(call.splitBetween)
     IN Abs(n * result.splits[n].amount - call.amount) > n * Cent

ExactTotal == SumSeq(Amounts(call.splitBetween))

SameShares(splits) ==
  /\ Len(splits) = Len(call.splitBetween)
  /\ \A i \in 1..Len(splits) :
       /\ splits[i].userId = call.splitBetween[i].userId
       /\ splits[i].amount = call.splitBetween[i].amount

\* the call is over and got as far as calculateSplits with an EXACT policy
ExactReached ==
  /\ stage = "done"
  /\ call.splitType = "EXACT"
  /\ call.hasSplitBetween
  /\ \/ call.op = "calculateSplits"
     \/ /\ call.op = "createExpense"
        /\ call.other
        /\ call.amount > 0
        /\ IsMember(1, call.userId)
        /\ call.splitBetween # <<>>
        /\ \A u \in SplitUsers(call.splitBetween) : IsMember(1, u)
     \/ /\ call.op = "updateExpense"
        /\ call.amount >= 0
        /\ IsMember(1, call.userId)
        /\ call.splitBetween # <<>>
        /\ "e1" \in DOMAIN call.before

\* the amount the EXACT total is held against
ExactAmount ==
  IF call.op = "updateExpense" /\ call.amount = 0
  THEN call.before["e1"].amount
  ELSE call.amount

\* C10: an EXACT split succeeds exactly when the participants' amounts sum
\* to the expense amount and then keeps every amount unchanged; otherwise it
\* fails with the split-sum-mismatch error, and the createExpense or
\* updateExpense call that hit it leaves the stored records as they were.
C10_ExactSplit ==
  ExactReached =>
    IF ExactTotal = ExactAmount
    THEN CASE call.op = "calculateSplits" -> result.ok /\ SameShares(result.splits)
           [] call.op = "createExpense" ->
                /\ response = OK(201)
                /\ \E id \in DOMAIN expenses \ DOMAIN call.before :
                     /\ SameShares(expenses[id].splits)
                     /\ expenses[id].amount = call.amount
                /\ \A id \in DOMAIN call.before :
                     id \in DOMAIN expenses /\ expenses[id] = call.before[id]
           [] call.op = "updateExpense" ->
                /\ response = OK(200)
                /\ SameShares(expenses["e1"].splits)
    ELSE CASE call.op = "calculateSplits" ->
                ~result.ok /\ result.error = "SplitSumMismatch" /\ result.splits = <<>>
           [] OTHER ->
                /\ response = Fail(400, "SplitSumMismatch")
                /\ expenses = call.before

\* ---- PERCENTAGE
PercentageCall ==
  /\ stage = "done"
  /\ call.op = "calculateSplits"
  /\ call.splitType = "PERCENTAGE"

PercentageTotal ==
  SumSeq([i \in 1..Len(call.splitBetween) |-> call.splitBetween[i].percentage])

\* C11: a PERCENTAGE split fails with the percentage-sum-mismatch error when
\* the percentages do not sum to 100; when they do, every participant gets,
\* in the given order, a whole-cent share nearest to amount x pct / 100,
\* and the shares sum to the amount within N x 0.01.
C11_PercentageSplit ==
  PercentageCall =>
    IF PercentageTotal # 100 * Percent
    THEN ~result.ok /\ result.error = "PercentageSumMismatch" /\ result.splits = <<>>
    ELSE LET n == Len(call.splitBetween)
             shares == Amounts(result.splits)
         IN /\ result.ok
            /\ Len(shares) = n
            /\ \A i \in 1..n :
                 /\ result.splits[i].userId = call.splitBetween[i].userId
                 /\ result.splits[i].percentage = call.splitBetween[i].percentage
                 /\ shares[i] % Cent = 0
                 /\ 2 * Abs(100 * Percent * shares[i]
                              - call.amount * call.splitBetween[i].percentage)
                      <= 100 * Percent * Cent
            /\ Abs(SumSeq(shares) - call.amount) <= n * Cent

\* ---- zero participants
\* a createExpense or updateExpense request that got as far as the check of
\* its splitBetween list, and sent an empty one
EmptySplitBetween ==
  /\ stage = "done"
  /\ call.op \in {"createExpense", "updateExpense"}
  /\ call.splitType \in SplitType
  /\ call.hasSplitBetween
  /\ Len(call.splitBetween) = 0
  /\ IF call.op = "createExpense" THEN call.other /\ call.amount > 0 ELSE call.amount >= 0

\* C12: for each of the three policies, a split asked for zero participants
\* fails with the empty-participant-set error and no split list is computed
\* or stored: the request is answered 400 before calculateSplits is called,
\* whoever the caller is.
C12_EmptyParticipantSet ==
  EmptySplitBetween =>
    /\ response = Fail(400, "EmptyParticipantSet")
    /\ inFlight["p1"].held = <<>>
    /\ expenses = call.before

\* a member asks for a new expense with a PERCENTAGE split among nobody
C12_Witness ==
  /\ EmptySplitBetween
  /\ call.op = "createExpense"
  /\ call.splitType = "PERCENTAGE"
  /\ IsMember(1, call.userId)
  /\ response = Fail(400, "EmptyParticipantSet")

\* ---- calculateBalances
BalancesCall == stage = "done" /\ call.op = "calculateBalances"

\* what u paid and what u owes over the list, summed row by row as decimals
PaidBy(u, list) ==
  SumSeq([k \in 1..Len(list) |-> IF list[k].paidById = u THEN list[k].amount ELSE 0])

OwedBy(u, list) ==
  SumSeq([k \in 1..Len(list) |->
            SumSeq([i \in 1..Len(list[k].splits) |->
                      IF list[k].splits[i].userId = u THEN list[k].splits[i].amount ELSE 0])])

Touched(list) ==
  {list[k].paidById : k \in 1..Len(list)}
    \cup UNION {SplitUsers(list[k].splits) : k \in 1..Len(list)}

\* C13: calculateBalances gives every user who paid or has a split exactly
\* one entry, holding what the user paid minus the user's split amounts over
\* the whole list (own shares of the payer included), and gives no entry to
\* any other user.
C13_BalanceFormula ==
  BalancesCall =>
    /\ \A i, j \in 1..Len(balances) : balances[i].userId = balances[j].userId => i = j
    /\ {balances[i].userId : i \in 1..Len(balances)} = Touched(call.expenses)
    /\ \A i \in 1..Len(balances) :
         balances[i].amount = Double(PaidBy(balances[i].userId, call.expenses)
                                       - OwedBy(balances[i].userId, call.expenses))

Injective(p) == \A i, j \in DOMAIN p : p[i] = p[j] => i = j

IndexPermutations(n) == {p \in [1..n -> 1..n] : Injective(p)}

Permuted(s, p) == [i \in 1..Len(s) |-> s[p[i]]]

AsMapping(m) == {<<m[i].userId, m[i].amount>> : i \in 1..Len(m)}

\* C14: calculateBalances returns the same user-to-amount mapping for the
\* list in any other order, and for the list with the splits of any one
\* expense in any other order (every list of the domain is checked, so the
\* two kinds of reordering compose).
C14_OrderIndependent ==
  BalancesCall =>
    /\ \A p \in IndexPermutations(Len(call.expenses)) :
         AsMapping(calculateBalances(Permuted(call.expenses, p))) = AsMapping(balances)
    /\ \A k \in 1..Len(call.expenses) :
         \A p \in IndexPermutations(Len(call.expenses[k].splits)) :
           AsMapping(calculateBalances(
             [call.expenses EXCEPT ![k].splits = Permuted(call.expenses[k].splits, p)]))
             = AsMapping(balances)

\* ---- balance and suggestion requests
ReadAnswered ==
  stage = "done" /\ reply.handler \in {"getGroupBalances", "getSettlementSuggestions"}

\* C15: a caller who is not a member of the group is answered 403 with the
\* not-a-member error and no balances or transfers, and the request has read
\* no expense: the membership query is the only one issued.
C15_NotAMember ==
  (ReadAnswered /\ ~IsMember(1, reply.userId)) =>
    /\ reply.status = 403
    /\ reply.error = "NotAMember"
    /\ reply.balances = <<>>
    /\ reply.transactions = <<>>
    /\ reply.queries = <<"groupMember.findFirst">>

C15_Witness ==
  /\ ReadAnswered
  /\ reply.handler = "getGroupBalances"
  /\ ~IsMember(1, reply.userId)
  /\ DOMAIN expenses = {"e1", "e2"}
  /\ reply.status = 403

\* C16: a balance or suggestion request leaves the Expense and ExpenseSplit
\* rows, the Settlement rows, the Group row and the GroupMember rows as they
\* were, at every await.
C16_Advisory == [][UNCHANGED <<expenses, settlements, group, members>>]_vars

C16_Witness ==
  /\ ReadAnswered
  /\ reply.handler = "getSettlementSuggestions"
  /\ reply.status = 200
  /\ reply.transactions # <<>>
  /\ DOMAIN settlements = {"s1"}

\* the net balance of u as calculateBalances aggregates it over the group's
\* expenses, as the request read them
NetBalance(u) ==
  LET m == calculateBalances(inFlight["p1"].held.expenses)
  IN IF MapHas(m, u) THEN MapGet(m, u) ELSE Zero

\* C17: in the answer of either request every listed balance carries the
\* user's net balance rounded to 2 decimals, as it was before the transfers
\* were paired.
C17_BalancesUntouched ==
  (ReadAnswered /\ reply.status = 200) =>
    \A k \in 1..Len(reply.balances) :
      reply.balances[k].amount = Double(ToFixed2(NetBalance(reply.balances[k].userId)))

Listed(u) == \E k \in 1..Len(reply.balances) : reply.balances[k].userId = u

\* C18: in the answer of either request a user is listed exactly when the
\* absolute value of the user's net balance is at least 0.01, as 'owed' when
\* the balance is positive and as 'owes' when it is negative.
C18_ListedFromOneCent ==
  (ReadAnswered /\ reply.status = 200) =>
    /\ \A u \in Users : Listed(u) <=> ~BelowCent(NetBalance(u))
    /\ \A k \in 1..Len(reply.balances) :
         /\ reply.balances[k].type = "owed" <=> Less(Zero, NetBalance(reply.balances[k].userId))
         /\ reply.balances[k].type = "owes" <=> Less(NetBalance(reply.balances[k].userId), Zero)

\* ---- the two pairings compared
TransferSet(transfers) == {transfers[k] : k \in 1..Len(transfers)}

\* credits of 0.05 and 0.04 against three debts of 0.03
PairingInput == BalanceInput(5, <<5, 4, -3, -3, -3>>)

BothPaired == pc = "done" /\ reply.handler = "getSettlementSuggestions"

\* C19: on the zero-sum Map {a: 0.05, b: 0.04, c: -0.03, d: -0.03, e: -0.03}
\* the sorted two-pointer pairing and the greedy of minimizeCashFlow return
\* different sets of (from, to, amount) transfers.
C19_PairingsDiffer ==
  (BothPaired /\ balances = PairingInput) =>
    TransferSet(reply.transactions) # TransferSet(transactions)

C19_Witness ==
  /\ BothPaired
  /\ balances = PairingInput
  /\ [from |-> "d", to |-> "a", amount |-> 2 * Cent] \in TransferSet(reply.transactions)
  /\ [from |-> "d", to |-> "b", amount |-> 3 * Cent] \in TransferSet(transactions)

\* ---- one expense, from the split to the transfers
\* the pipeline ran on an expense whose shares sum to its amount
PipelineDone ==
  /\ stage = "done"
  /\ call.op = "pipeline"
  /\ result.ok
  /\ SumSeq(Amounts(result.splits)) = call.amount

\* the positions, in the split list, of the other participants with a share
Debtors ==
  {i \in 1..Len(result.splits) :
     result.splits[i].userId # call.userId /\ result.splits[i].amount # 0}

PositionOf(u) == CHOOSE i \in 1..Len(result.splits) : result.splits[i].userId = u

\* C20: for a single expense paid by P whose shares sum to the amount the
\* pipeline returns one transfer per other participant with a non-zero share,
\* from that participant to P for that share, by decreasing share and, among
\* equal shares, in the order of the split list.
C20_SingleExpensePipeline ==
  PipelineDone =>
    /\ pc = "done"
    /\ Len(transactions) = Cardinality(Debtors)
    /\ \A i \in Debtors :
         \E k \in 1..Len(transactions) :
           transactions[k] = [from |-> result.splits[i].userId, to |-> call.userId,
                              amount |-> result.splits[i].amount]
    /\ \A k, l \in 1..Len(transactions) :
         k < l =>
           \/ transactions[k].amount > transactions[l].amount
           \/ /\ transactions[k].amount = transactions[l].amount
              /\ PositionOf(transactions[k].from) < PositionOf(transactions[l].from)

\* ---- EQUAL: how the first shares are cut
\* C21 as stated: each of the first N-1 shares of an EQUAL split is A/N cut
\* down to 2 decimals (never raised), and the last participant receives A
\* minus the sum of the other shares.
C21_EqualTruncated ==
  EqualCall =>
    LET n == Len(call.splitBetween)
        shares == Amounts(result.splits)
    IN /\ result.ok
       /\ Len(shares) = n
       /\ \A i \in 1..(n - 1) :
            /\ shares[i] % Cent = 0
            /\ n * shares[i] <= call.amount
            /\ call.amount < n * (shares[i] + Cent)
       /\ shares[n] = call.amount - SumSeq(SubSeq(shares, 1, n - 1))

\* C21 as amended: each of the first N-1 shares is the same 2-decimal value,
\* a nearest one to A/N (within 0.005 of it, above or below), and the last
\* participant receives a 2-decimal value nearest to A minus the sum of the
\* other shares, which is that difference itself when A is a whole number of
\* cents.
C21_EqualRounded ==
  EqualCall =>
    LET n == Len(call.splitBetween)
        shares == Amounts(result.splits)
        rest == call.amount - SumSeq(SubSeq(shares, 1, n - 1))
    IN /\ result.ok
       /\ Len(shares) = n
       /\ \A i \in 1..n : result.splits[i].userId = call.splitBetween[i].userId
       /\ \A i \in 1..(n - 1) :
            /\ shares[i] = shares[1]
            /\ shares[i] % Cent = 0
            /\ 2 * Abs(n * shares[i] - call.amount) <= n * Cent
       /\ shares[n] % Cent = 0
       /\ 2 * Abs(shares[n] - rest) <= Cent
       /\ call.amount % Cent = 0 => shares[n] = rest

\* 0.05 over three participants: the first shares are 0.02, above A/N
C21_Witness ==
  /\ EqualCall
  /\ call.amount = 5 * Cent
  /\ Len(call.splitBetween) = 3
  /\ result.splits[1].amount = 2 * Cent
  /\ result.splits[3].amount = Cent

\* ---- minimizeCashFlow: the choice made by one iteration
\* the earliest entry of arr holding its largest amount, and its smallest
FirstLargest(arr) ==
  CHOOSE i \in 1..Len(arr) :
    /\ \A j \in 1..Len(arr) : ~Less(arr[i].amount, arr[j].amount)
    /\ \A j \in 1..(i - 1) : Less(arr[j].amount, arr[i].amount)

FirstSmallest(arr) ==
  CHOOSE i \in 1..Len(arr) :
    /\ \A j \in 1..Len(arr) : ~Less(arr[j].amount, arr[i].amount)
    /\ \A j \in 1..(i - 1) : Less(arr[i].amount, arr[j].amount)

\* an iteration of the loop has just pushed a transfer
IterationDone == pc = "loop" /\ Len(transactions') = Len(transactions) + 1

\* C22: on a zero-sum Map every iteration pushes a transfer from the entry
\* with the most negative amount to the entry with the largest positive
\* amount of the working set it found, the earliest entry among equals, for
\* min(creditor amount, |debtor amount|) as a 2-decimal value.
C22_GreedyChoice ==
  [][(ZeroSum /\ IterationDone) =>
       LET arr == nonZeroBalances
           creditor == arr[FirstLargest(arr)]
           debtor == arr[FirstSmallest(arr)]
           pushed == transactions'[Len(transactions')]
       IN /\ Less(debtor.amount, Zero)
          /\ Less(Zero, creditor.amount)
          /\ pushed.from = debtor.userId
          /\ pushed.to = creditor.userId
          /\ pushed.amount = ToFixed2(MinOf(creditor.amount, AbsOf(debtor.amount)))]_vars

\* ---- minimizeCashFlow: what the initial working set keeps
\* the loop has been entered and no iteration has run yet
LoopEntered == pc = "loop" /\ transactions = <<>>

InWorkingSet(u) == \E k \in 1..Len(nonZeroBalances) : nonZeroBalances[k].userId = u

\* C23: on a zero-sum Map the initial working set holds exactly the entries
\* whose 2-decimal balance is at least 0.01 in absolute value, those of
\* exactly 0.01 included, so every user getGroupBalances lists for the same
\* Map is in it.
C23_KeepsOneCent ==
  (ZeroSum /\ LoopEntered) =>
    /\ \A i \in 1..Len(balances) :
         InWorkingSet(balances[i].userId) <=> Abs(ToFixed2(balances[i].amount)) >= Cent
    /\ \A k \in 1..Len(formattedBalances(balances)) :
         InWorkingSet(formattedBalances(balances)[k].userId)

\* ---- updateExpense: the splits it leaves
\* the stored splits are what calculateSplits returns for the stored amount
\* and the stored policy (the split type, the users in order, and what each
\* split row holds of an exact amount or a percentage)
Recomputed(expense) ==
  LET r == calculateSplits(expense.amount, expense.splitType, expense.splits)
  IN r.ok /\ r.splits = expense.splits

\* C24: after a successful updateExpense, whatever fields it carried, the
\* splits of the expense are a full recomputation from its stored amount and
\* stored split policy.
C24_FullRecomputation ==
  response = OK(200) => \A id \in DOMAIN expenses : Recomputed(expenses[id])

\* ---- deleteSettlement: who may delete
\* a step of the deleteSettlement call p on a stored settlement
CreatorOf(groupId) == IF IsGroup(groupId) THEN group[groupId].createdBy ELSE "none"

DeleteStep(p) ==
  /\ inFlight[p].op = "deleteSettlement"
  /\ inFlight[p].at # "done"
  /\ inFlight'[p] # inFlight[p]
  /\ inFlight[p].id \in DOMAIN settlements

\* C25: a deleteSettlement request on a stored settlement removes it only
\* when the caller is its payer or the creator of the group; from any other
\* caller, a member of the group or not, the handler leaves the settlement
\* stored and its answer is 403.
C25_DeleteByPayerOrAdmin ==
  [][\A p \in DOMAIN inFlight :
       (/\ DeleteStep(p)
        /\ inFlight[p].userId # settlements[inFlight[p].id].paidById
        /\ inFlight[p].userId # CreatorOf(settlements[inFlight[p].id].groupId)) =>
         /\ settlements' = settlements
         /\ inFlight'[p].at = "done" => response' = Fail(403, "NotAuthorized")]_vars

\* ---- groups and their members
\* C30: while a group exists it has at least one member and its creator is
\* one of its members.
C30_CreatorIsMember ==
  \A g \in DOMAIN group : MemberCount(g) >= 1 /\ IsMember(g, group[g].createdBy)

\* ---- settlements and the balances
\* C26: a balance or suggestion request made again after any createSettlement
\* and deleteSettlement calls, a payment of the whole of a suggested transfer
\* among them, is answered with the balances and the transfers it was answered
\* with the first time, whatever the order they are listed in.
C26_SettlementsIgnored ==
  stage = "done" =>
    /\ reply.status = call.first.status
    /\ TransferSet(reply.balances) = TransferSet(call.first.balances)
    /\ TransferSet(reply.transactions) = TransferSet(call.first.transactions)

\* ---- the pairing loop of getSettlementSuggestions
\* an iteration of the pairing loop has just run
PairIterationDone ==
  pairing.pc = "loop" /\ Len(pairing'.suggestions) = Len(pairing.suggestions) + 1

\* C27: on every Map, zero-sum or not, every iteration of the pairing loop
\* moves at least one of the two indices forward and none back, and is at most
\* the (P + D - 1)-th, P the listed creditors and D the listed debtors; so the
\* loop is never found still running after MaxIter iterations.
C27_PairingTerminates ==
  [][/\ PairIterationDone =>
          /\ pairing'.i >= pairing.i
          /\ pairing'.j >= pairing.j
          /\ pairing'.i > pairing.i \/ pairing'.j > pairing.j
          /\ Len(pairing'.suggestions)
               <= Len(pairing.positiveBalances) + Len(pairing.negativeBalances) - 1
     /\ ~(/\ pairing'.pc = "loop"
          /\ Len(pairing'.suggestions) >= MaxIter
          /\ pairing'.i <= Len(pairing'.positiveBalances)
          /\ pairing'.j <= Len(pairing'.negativeBalances))]_vars

\* a Map that is not zero-sum, of four listed users or more, paired in
\* exactly P + D - 1 iterations
C27_Witness ==
  /\ pairing.pc = "done"
  /\ ~SumsToZero(balances)
  /\ Len(pairing.positiveBalances) + Len(pairing.negativeBalances) >= 4
  /\ Len(pairing.suggestions)
       = Len(pairing.positiveBalances) + Len(pairing.negativeBalances) - 1

\* ---- two updateExpense calls at once
\* both calls are updateExpense calls and have completed with success
BothUpdated ==
  \A p \in Calls :
    /\ inFlight[p].op = "updateExpense"
    /\ inFlight[p].at = "done"
    /\ inFlight[p].response = OK(200)

\* C28: after two updateExpense calls on the same expense, each replacing the
\* splits, have both completed, the stored splits are those of one of the two
\* calls, and that call computed them from the amount now stored.
C28_ConcurrentUpdates ==
  BothUpdated =>
    \E p \in Calls :
      /\ expenses["e1"].splits = inFlight[p].held.splits
      /\ inFlight[p].held.used = expenses["e1"].amount

\* ---- who a written split names
\* the call wrote expense id: it is new, or its splits are no longer the old ones
Wrote(id) ==
  /\ id \in DOMAIN expenses
  /\ id \in DOMAIN call.before => expenses[id].splits # call.before[id].splits

\* C29: every split written by createExpense or updateExpense names a member
\* of the group, and the payer of an expense createExpense wrote is the caller,
\* who is a member.
C29_SplitsNameMembers ==
  (stage = "done" /\ call.op \in {"createExpense", "updateExpense"}) =>
    \A id \in DOMAIN expenses :
      Wrote(id) =>
        /\ \A u \in SplitUsers(expenses[id].splits) : IsMember(expenses[id].groupId, u)
        /\ call.op = "createExpense" =>
             (expenses[id].paidById = call.userId
                /\ IsMember(expenses[id].groupId, call.userId))

====
